---- MODULE Spec2Model ----
(***************************************************************************)
(* Rentmatrix AI: the deterministic core of the triage pipeline.           *)
(*   - SLAMapperAgent  (src/agent/core_agents/sla_mapper_agent.py)         *)
(*   - PriorityCalculatorAgent                                             *)
(*       (src/triage_lambda/agent/core_agents/priority_calculator_agent.py)*)
(*   - the hand-over of the score between them                             *)
(*       (src/agent/pipeline/triage_pipeline.py)                           *)
(*                                                                         *)
(* A datetime is the number of minutes since Monday 00:00 of week 0, so    *)
(* that weekday() is (dt \div 1440) % 7 with 0 = Monday as in Python.      *)
(* Hours (hours_remaining, hours_available) are kept in minutes, which is  *)
(* exact for the submission times drawn here (whole minutes).              *)
(***************************************************************************)
EXTENDS Integers, Sequences, FiniteSets, TLC

(***************************************************************************)
(* Bounds of the model                                                     *)
(***************************************************************************)
\* last calendar day a datetime may fall on; a day added past it raises
\* OverflowError ("date value out of range"), as datetime does past year 9999
MaxDay == 100
\* submission times are drawn from the days 0..MaxSubmitDay (0 = Monday)
MaxSubmitDay == 6

\* the value standing for an OverflowError of datetime arithmetic
Overflow == -1

(***************************************************************************)
(* datetime helpers                                                        *)
(***************************************************************************)
DateTime(day, hour, minute) == day * 1440 + hour * 60 + minute
DayOf(dt) == dt \div 1440
weekday(dt) == DayOf(dt) % 7
HourOf(dt) == (dt % 1440) \div 60
MinuteOf(dt) == dt % 60
\* dt.replace(hour=h): the minutes of dt kept
ReplaceHour_KeepsMinutes(dt, h) == DayOf(dt) * 1440 + h * 60 + MinuteOf(dt)

\* dt.replace(hour=h, minute=0, second=0, microsecond=0)
ReplaceHour(dt, h) == DayOf(dt) * 1440 + h * 60
\* dt + timedelta(days=1)
AddDay(dt) == IF DayOf(dt) + 1 > MaxDay THEN Overflow ELSE dt + 1440
\* dt + timedelta(hours=m/60)
AddMinutes(dt, m) == IF DayOf(dt + m) > MaxDay THEN Overflow ELSE dt + m

(***************************************************************************)
(* Exact arithmetic.  Every base hazard and ratio of the source is a       *)
(* decimal literal, so the hazard h is a decimal number: a natural number  *)
(* m (its digits) and the count e of digits after the point, h = m/10^e.   *)
(* The score 100h/(h+1) is the fraction 100m / (m + 10^e).  Naturals are   *)
(* kept as sequences of base-10000 limbs, least significant first, without *)
(* leading zero limbs, because the products do not fit a machine integer.  *)
(* The source computes in IEEE doubles; the relative error of its at most  *)
(* 40 multiplications is below 1e-14, far from every threshold met here.   *)
(***************************************************************************)
Big(n) == IF n = 0 THEN <<>>
          ELSE IF n < 10000 THEN <<n>>
          ELSE IF n < 100000000 THEN <<n % 10000, n \div 10000>>
          ELSE <<n % 10000, (n \div 10000) % 10000, n \div 100000000>>

RECURSIVE BStrip(_)
BStrip(x) == IF x = <<>> THEN <<>>
             ELSE IF x[Len(x)] = 0 THEN BStrip(SubSeq(x, 1, Len(x) - 1))
             ELSE x

RECURSIVE BMulCarry(_, _, _)
BMulCarry(x, k, carry) ==
    IF x = <<>> THEN (IF carry = 0 THEN <<>> ELSE <<carry>>)
    ELSE LET t == Head(x) * k + carry
         IN  <<t % 10000>> \o BMulCarry(Tail(x), k, t \div 10000)
\* x * k for 0 <= k <= 10000
BMulSmall(x, k) == BStrip(BMulCarry(x, k, 0))

RECURSIVE BAddCarry(_, _, _)
BAddCarry(x, y, carry) ==
    IF x = <<>> /\ y = <<>> THEN (IF carry = 0 THEN <<>> ELSE <<carry>>)
    ELSE LET a == IF x = <<>> THEN 0 ELSE Head(x)
             b == IF y = <<>> THEN 0 ELSE Head(y)
             t == a + b + carry
         IN  <<t % 10000>> \o BAddCarry(IF x = <<>> THEN <<>> ELSE Tail(x),
                                        IF y = <<>> THEN <<>> ELSE Tail(y),
                                        t \div 10000)
BAdd(x, y) == BAddCarry(x, y, 0)

RECURSIVE BLessFrom(_, _, _)
BLessFrom(x, y, i) ==
    IF i = 0 THEN FALSE
    ELSE IF x[i] # y[i] THEN x[i] < y[i]
    ELSE BLessFrom(x, y, i - 1)
BLess(x, y) == IF Len(x) # Len(y) THEN Len(x) < Len(y)
               ELSE BLessFrom(x, y, Len(x))
BLeq(x, y) == ~BLess(y, x)

RECURSIVE BSubBorrow(_, _, _)
BSubBorrow(x, y, borrow) ==
    IF x = <<>> THEN <<>>
    ELSE LET b == IF y = <<>> THEN 0 ELSE Head(y)
             t == Head(x) - b - borrow
         IN  <<IF t < 0 THEN t + 10000 ELSE t>>
             \o BSubBorrow(Tail(x), IF y = <<>> THEN <<>> ELSE Tail(y),
                           IF t < 0 THEN 1 ELSE 0)
\* x - y for x >= y
BSub(x, y) == BStrip(BSubBorrow(x, y, 0))

RECURSIVE BMul(_, _)
BMul(x, y) ==
    IF y = <<>> \/ x = <<>> THEN <<>>
    ELSE LET rest == BMul(x, Tail(y))
         IN  BAdd(BMulSmall(x, Head(y)),
                  IF rest = <<>> THEN <<>> ELSE <<0>> \o rest)

\* x * 10^n: n \div 4 zero limbs below x * 10^(n % 4)
BShift10(x, n) ==
    LET small == CASE n % 4 = 0 -> 1 [] n % 4 = 1 -> 10 [] n % 4 = 2 -> 100
                   [] n % 4 = 3 -> 1000
    IN  IF x = <<>> THEN <<>>
        ELSE [i \in 1..(n \div 4) |-> 0] \o BMulSmall(x, small)

\* the largest k in 0..9 with k * b <= r
DigitOf(r, b) ==
    LET fits == {k \in 0..9 : BLeq(BMulSmall(b, k), r)}
    IN  CHOOSE k \in fits : \A j \in fits : j <= k

\* floor(a / b) and the remainder, for a < 1000 * b
BDivMod(a, b) ==
    LET b100 == BMulSmall(b, 100)
        b10 == BMulSmall(b, 10)
        d1 == DigitOf(a, b100)
        r1 == BSub(a, BMulSmall(b100, d1))
        d2 == DigitOf(r1, b10)
        r2 == BSub(r1, BMulSmall(b10, d2))
        d3 == DigitOf(r2, b)
        r3 == BSub(r2, BMulSmall(b, d3))
    IN  [quot |-> 100 * d1 + 10 * d2 + d3, rem |-> r3]

\* decimals m / 10^e
Dec(m, e) == [m |-> Big(m), e |-> e]
Thousandths(k) == Dec(k, 3)
\* h * ratio, the ratio being a literal with two decimals, given in hundredths
DMul(x, k) == [m |-> BMulSmall(x.m, k), e |-> x.e + 2]
DMax(a, b) == IF a > b THEN a ELSE b
DLess(x, y) == BLess(BShift10(x.m, DMax(x.e, y.e) - x.e),
                     BShift10(y.m, DMax(x.e, y.e) - y.e))
DLeq(x, y) == ~DLess(y, x)
DEq(x, y) == ~DLess(x, y) /\ ~DLess(y, x)

\* fractions num / den
Frac(num, den) == [num |-> num, den |-> den]
FEq(x, y) == BMul(x.num, y.den) = BMul(y.num, x.den)
FLess(x, y) == BLess(BMul(x.num, y.den), BMul(y.num, x.den))

\* round(x, 1) of a fraction 0 <= x < 100, in tenths (ties to even)
RoundTenths(x) ==
    LET dm == BDivMod(BMulSmall(x.num, 10), x.den)
        twice == BMulSmall(dm.rem, 2)
    IN  IF BLess(x.den, twice) THEN dm.quot + 1
        ELSE IF twice = x.den /\ dm.quot % 2 = 1 THEN dm.quot + 1
        ELSE dm.quot

(***************************************************************************)
(* Text: str.lower(), str.upper() and the substring test `a in b`          *)
(***************************************************************************)
LowerChar(c) ==
    CASE c = "A" -> "a" [] c = "B" -> "b" [] c = "C" -> "c" [] c = "D" -> "d"
      [] c = "E" -> "e" [] c = "F" -> "f" [] c = "G" -> "g" [] c = "H" -> "h"
      [] c = "I" -> "i" [] c = "J" -> "j" [] c = "K" -> "k" [] c = "L" -> "l"
      [] c = "M" -> "m" [] c = "N" -> "n" [] c = "O" -> "o" [] c = "P" -> "p"
      [] c = "Q" -> "q" [] c = "R" -> "r" [] c = "S" -> "s" [] c = "T" -> "t"
      [] c = "U" -> "u" [] c = "V" -> "v" [] c = "W" -> "w" [] c = "X" -> "x"
      [] c = "Y" -> "y" [] c = "Z" -> "z" [] OTHER -> c
Lower(t) == [i \in 1..Len(t) |-> LowerChar(t[i])]
\* needle in haystack, on character sequences
Contains(needle, haystack) ==
    \E i \in 0..(Len(haystack) - Len(needle)) :
        \A j \in 1..Len(needle) : haystack[i + j] = needle[j]

\* the label taken as it is given
Upper_AsGiven(s) == s

\* str.upper() on the severity and trade labels that are drawn as inputs
Upper(s) ==
    CASE s = "low" -> "LOW" [] s = "medium" -> "MEDIUM" [] s = "high" -> "HIGH"
      [] s = "emergency" -> "EMERGENCY" [] s = "Emergency" -> "EMERGENCY"
      [] s = "Low" -> "LOW" [] s = "Medium" -> "MEDIUM" [] s = "hIgH" -> "HIGH"
      [] s = "plumbing" -> "PLUMBING" [] s = "hvac" -> "HVAC"
      [] s = "electrical" -> "ELECTRICAL" [] s = "general" -> "GENERAL"
      [] OTHER -> s

\* the characters of every string the engine searches in or for
Chars(s) ==
    CASE s = "Gas leak/smell" ->
           <<"G","a","s"," ","l","e","a","k","/","s","m","e","l","l">>
      [] s = "Fire/flames/smoke" ->
           <<"F","i","r","e","/","f","l","a","m","e","s","/","s","m","o","k","e">>
      [] s = "Carbon monoxide alarm" ->
           <<"C","a","r","b","o","n"," ","m","o","n","o","x","i","d","e"," ","a","l","a","r","m">>
      [] s = "Electrical shock hazard" ->
           <<"E","l","e","c","t","r","i","c","a","l"," ","s","h","o","c","k"," ","h","a","z","a","r","d">>
      [] s = "Sewage in living area" ->
           <<"S","e","w","a","g","e"," ","i","n"," ","l","i","v","i","n","g"," ","a","r","e","a">>
      [] s = "Water actively spreading" ->
           <<"W","a","t","e","r"," ","a","c","t","i","v","e","l","y"," ","s","p","r","e","a","d","i","n","g">>
      [] s = "Ceiling dripping" ->
           <<"C","e","i","l","i","n","g"," ","d","r","i","p","p","i","n","g">>
      [] s = "Situation escalating" ->
           <<"S","i","t","u","a","t","i","o","n"," ","e","s","c","a","l","a","t","i","n","g">>
      [] s = "Tenant evacuated" ->
           <<"T","e","n","a","n","t"," ","e","v","a","c","u","a","t","e","d">>
      [] s = "Medical condition" ->
           <<"M","e","d","i","c","a","l"," ","c","o","n","d","i","t","i","o","n">>
      [] s = "Infant present" ->
           <<"I","n","f","a","n","t"," ","p","r","e","s","e","n","t">>
      [] s = "Elderly tenant" ->
           <<"E","l","d","e","r","l","y"," ","t","e","n","a","n","t">>
      [] s = "Pregnant occupant" ->
           <<"P","r","e","g","n","a","n","t"," ","o","c","c","u","p","a","n","t">>
      [] s = "No heat + extreme cold" ->
           <<"N","o"," ","h","e","a","t"," ","+"," ","e","x","t","r","e","m","e"," ","c","o","l","d">>
      [] s = "No heat + cold" ->
           <<"N","o"," ","h","e","a","t"," ","+"," ","c","o","l","d">>
      [] s = "No AC + extreme heat" ->
           <<"N","o"," ","A","C"," ","+"," ","e","x","t","r","e","m","e"," ","h","e","a","t">>
      [] s = "Freeze risk" ->
           <<"F","r","e","e","z","e"," ","r","i","s","k">>
      [] s = "Late night" ->
           <<"L","a","t","e"," ","n","i","g","h","t">>
      [] s = "Holiday" ->
           <<"H","o","l","i","d","a","y">>
      [] s = "After hours" ->
           <<"A","f","t","e","r"," ","h","o","u","r","s">>
      [] s = "Weekend" ->
           <<"W","e","e","k","e","n","d">>
      [] s = "Third+ occurrence" ->
           <<"T","h","i","r","d","+"," ","o","c","c","u","r","r","e","n","c","e">>
      [] s = "Previous repair failed" ->
           <<"P","r","e","v","i","o","u","s"," ","r","e","p","a","i","r"," ","f","a","i","l","e","d">>
      [] s = "Recent similar issue" ->
           <<"R","e","c","e","n","t"," ","s","i","m","i","l","a","r"," ","i","s","s","u","e">>
      [] s = "Structural concern" ->
           <<"S","t","r","u","c","t","u","r","a","l"," ","c","o","n","c","e","r","n">>
      [] s = "Upper floor water leak" ->
           <<"U","p","p","e","r"," ","f","l","o","o","r"," ","w","a","t","e","r"," ","l","e","a","k">>
      [] s = "Multi-unit building" ->
           <<"M","u","l","t","i","-","u","n","i","t"," ","b","u","i","l","d","i","n","g">>
      [] s = "Cannot access unit" ->
           <<"C","a","n","n","o","t"," ","a","c","c","e","s","s"," ","u","n","i","t">>
      [] s = "No electricity" ->
           <<"N","o"," ","e","l","e","c","t","r","i","c","i","t","y">>
      [] s = "No running water" ->
           <<"N","o"," ","r","u","n","n","i","n","g"," ","w","a","t","e","r">>
      [] s = "No toilet function" ->
           <<"N","o"," ","t","o","i","l","e","t"," ","f","u","n","c","t","i","o","n">>
      [] s = "gas" ->
           <<"g","a","s">>
      [] s = "fire" ->
           <<"f","i","r","e">>
      [] s = "smoke" ->
           <<"s","m","o","k","e">>
      [] s = "flames" ->
           <<"f","l","a","m","e","s">>
      [] s = "carbon monoxide" ->
           <<"c","a","r","b","o","n"," ","m","o","n","o","x","i","d","e">>
      [] s = "co alarm" ->
           <<"c","o"," ","a","l","a","r","m">>
      [] s = "spark" ->
           <<"s","p","a","r","k">>
      [] s = "shock" ->
           <<"s","h","o","c","k">>
      [] s = "arcing" ->
           <<"a","r","c","i","n","g">>
      [] s = "exposed wire" ->
           <<"e","x","p","o","s","e","d"," ","w","i","r","e">>
      [] s = "sewage" ->
           <<"s","e","w","a","g","e">>
      [] s = "spreading" ->
           <<"s","p","r","e","a","d","i","n","g">>
      [] s = "flooding" ->
           <<"f","l","o","o","d","i","n","g">>
      [] s = "water everywhere" ->
           <<"w","a","t","e","r"," ","e","v","e","r","y","w","h","e","r","e">>
      [] s = "ceiling" ->
           <<"c","e","i","l","i","n","g">>
      [] s = "dripping" ->
           <<"d","r","i","p","p","i","n","g">>
      [] s = "worse" ->
           <<"w","o","r","s","e">>
      [] s = "can't stop" ->
           <<"c","a","n","'","t"," ","s","t","o","p">>
      [] s = "evacuated" ->
           <<"e","v","a","c","u","a","t","e","d">>
      [] s = "evacuation" ->
           <<"e","v","a","c","u","a","t","i","o","n">>
      [] s = "water" ->
           <<"w","a","t","e","r">>
      [] s = "electrical" ->
           <<"e","l","e","c","t","r","i","c","a","l">>
      [] s = "Smell of gas in kitchen" ->
           <<"S","m","e","l","l"," ","o","f"," ","g","a","s"," ","i","n"," ","k","i","t","c","h","e","n">>
      [] s = "Smoke in hallway" ->
           <<"S","m","o","k","e"," ","i","n"," ","h","a","l","l","w","a","y">>
      [] s = "CO alarm sounding" ->
           <<"C","O"," ","a","l","a","r","m"," ","s","o","u","n","d","i","n","g">>
      [] s = "Exposed wire near sink" ->
           <<"E","x","p","o","s","e","d"," ","w","i","r","e"," ","n","e","a","r"," ","s","i","n","k">>
      [] s = "Sewage backup" ->
           <<"S","e","w","a","g","e"," ","b","a","c","k","u","p">>
      [] s = "Water spreading across floor" ->
           <<"W","a","t","e","r"," ","s","p","r","e","a","d","i","n","g"," ","a","c","r","o","s","s"," ","f","l","o","o","r">>
      [] s = "Stain on ceiling" ->
           <<"S","t","a","i","n"," ","o","n"," ","c","e","i","l","i","n","g">>
      [] s = "Problem is worse today" ->
           <<"P","r","o","b","l","e","m"," ","i","s"," ","w","o","r","s","e"," ","t","o","d","a","y">>
      [] s = "No heat in unit" ->
           <<"N","o"," ","h","e","a","t"," ","i","n"," ","u","n","i","t">>
      [] s = "Locked out of unit" ->
           <<"L","o","c","k","e","d"," ","o","u","t"," ","o","f"," ","u","n","i","t">>
      [] s = "Toilet not flushing" ->
           <<"T","o","i","l","e","t"," ","n","o","t"," ","f","l","u","s","h","i","n","g">>
      [] s = "Power is out" ->
           <<"P","o","w","e","r"," ","i","s"," ","o","u","t">>
      [] s = "Third time reported" ->
           <<"T","h","i","r","d"," ","t","i","m","e"," ","r","e","p","o","r","t","e","d">>
      [] s = "Crack in foundation" ->
           <<"C","r","a","c","k"," ","i","n"," ","f","o","u","n","d","a","t","i","o","n">>
      [] s = "AC not cooling" ->
           <<"A","C"," ","n","o","t"," ","c","o","o","l","i","n","g">>
      [] s = "Repair did not hold" ->
           <<"R","e","p","a","i","r"," ","d","i","d"," ","n","o","t"," ","h","o","l","d">>
      [] s = "No power in unit" ->
           <<"N","o"," ","p","o","w","e","r"," ","i","n"," ","u","n","i","t">>
      [] s = "No AC in bedroom" ->
           <<"N","o"," ","A","C"," ","i","n"," ","b","e","d","r","o","o","m">>
      [] s = "Still not fixed" ->
           <<"S","t","i","l","l"," ","n","o","t"," ","f","i","x","e","d">>

\* KEYWORD_PATTERNS: for each concept key, the phrases of DescriptionPhrases
\* that one of its regular expressions matches (re.search, IGNORECASE)
KEYWORD_PATTERNS(pattern_key) ==
    CASE pattern_key = "gas_leak" -> {"gas smell"}
      [] pattern_key = "fire_smoke" -> {"fire in the kitchen"}
      [] pattern_key = "carbon_monoxide" -> {"carbon monoxide detector beeping"}
      [] pattern_key = "electrical_shock" -> {"outlet is sparking"}
      [] pattern_key = "sewage" -> {"sewage on the floor"}
      [] pattern_key = "water_spreading" -> {"water everywhere"}
      [] pattern_key = "ceiling_drip" -> {"dripping from ceiling"}
      [] pattern_key = "getting_worse" -> {"it is getting worse"}
      [] pattern_key = "evacuated" -> {"we evacuated"}
      [] pattern_key = "no_heat" -> {"no heat"}
      [] pattern_key = "no_ac" -> {"no ac"}
      [] pattern_key = "no_water" -> {"no water"}
      [] pattern_key = "no_power" -> {"no power"}
      [] pattern_key = "no_toilet" -> {"toilet won't flush"}
      [] pattern_key = "locked_out" -> {"locked out"}
      [] pattern_key = "structural" -> {"crack in the foundation"}
      [] pattern_key = "third_time" -> {"third time this has happened"}
      [] pattern_key = "repair_failed" -> {"still not fixed"}

PhraseLen(p) ==
    CASE p = "gas smell" -> 9
      [] p = "fire in the kitchen" -> 19
      [] p = "carbon monoxide detector beeping" -> 32
      [] p = "outlet is sparking" -> 18
      [] p = "sewage on the floor" -> 19
      [] p = "water everywhere" -> 16
      [] p = "dripping from ceiling" -> 21
      [] p = "it is getting worse" -> 19
      [] p = "we evacuated" -> 12
      [] p = "no heat" -> 7
      [] p = "no ac" -> 5
      [] p = "no water" -> 8
      [] p = "no power" -> 8
      [] p = "toilet won't flush" -> 18
      [] p = "locked out" -> 10
      [] p = "crack in the foundation" -> 23
      [] p = "third time this has happened" -> 28
      [] p = "still not fixed" -> 15
      [] p = "leaky faucet" -> 12

\* the phrases a description is composed of in this model
DescriptionPhrases ==
    UNION {KEYWORD_PATTERNS(k) : k \in
        {"gas_leak", "fire_smoke", "carbon_monoxide", "electrical_shock",
         "sewage", "water_spreading", "ceiling_drip", "getting_worse",
         "evacuated", "no_heat", "no_ac", "no_water", "no_power", "no_toilet",
         "locked_out", "structural", "third_time", "repair_failed"}}
    \cup {"leaky faucet"}

RECURSIVE SumLen(_)
SumLen(S) == IF S = {} THEN 0
             ELSE LET p == CHOOSE q \in S : TRUE
                  IN  PhraseLen(p) + 2 + SumLen(S \ {p})
\* len(description): the phrases, each followed by ". ", and the filler text
DescriptionLen(description) == SumLen(description.phrases) + description.filler

KeyFactorPhrases ==
    {"Smell of gas in kitchen",
     "Smoke in hallway",
     "CO alarm sounding",
     "Exposed wire near sink",
     "Sewage backup",
     "Water spreading across floor",
     "Stain on ceiling",
     "Problem is worse today",
     "No heat in unit",
     "Locked out of unit",
     "Toilet not flushing",
     "Power is out",
     "Third time reported",
     "Crack in foundation",
     "AC not cooling",
     "Repair did not hold",
     "No running water",
     "No power in unit",
     "No AC in bedroom",
     "Still not fixed"}

\* KEYWORD_PATTERNS applied to the key-factor phrases drawn in this model: for
\* each concept key, the phrases of KeyFactorPhrases that one of its regular
\* expressions matches
KeyFactorPhrasesMatching(pattern_key) ==
    CASE pattern_key = "gas_leak" ->
           {"Smell of gas in kitchen"}
      [] pattern_key = "fire_smoke" ->
           {"Smoke in hallway"}
      [] pattern_key = "carbon_monoxide" ->
           {"CO alarm sounding"}
      [] pattern_key = "electrical_shock" ->
           {"Exposed wire near sink"}
      [] pattern_key = "sewage" ->
           {"Sewage backup"}
      [] pattern_key = "water_spreading" ->
           {"Water spreading across floor"}
      [] pattern_key = "ceiling_drip" ->
           {}
      [] pattern_key = "getting_worse" ->
           {}
      [] pattern_key = "evacuated" ->
           {}
      [] pattern_key = "no_heat" ->
           {"No heat in unit"}
      [] pattern_key = "no_ac" ->
           {"No AC in bedroom"}
      [] pattern_key = "no_water" ->
           {"No running water"}
      [] pattern_key = "no_power" ->
           {"No power in unit"}
      [] pattern_key = "no_toilet" ->
           {"Toilet not flushing"}
      [] pattern_key = "locked_out" ->
           {"Locked out of unit"}
      [] pattern_key = "structural" ->
           {"Crack in foundation"}
      [] pattern_key = "third_time" ->
           {"Third time reported"}
      [] pattern_key = "repair_failed" ->
           {"Still not fixed"}

\* _check_keywords(text, pattern_key)
_check_keywords(description, pattern_key) ==
    \E p \in description.phrases : p \in KEYWORD_PATTERNS(pattern_key)

\* _check_key_factors(key_factors, keywords)
_check_key_factors(key_factors, keywords) ==
    \E keyword \in keywords : \E kf \in key_factors :
        Contains(Lower(Chars(keyword)), Lower(Chars(kf)))

(***************************************************************************)
(* Python dicts of the request.  A dict is a record of its values together *)
(* with two sets of key names: `absent`, the keys the dict does not have,  *)
(* and `nulls`, the keys whose value is None (JSON null).  The record field*)
(* of an absent or null key is a filler that is never the value read.      *)
(***************************************************************************)
\* d.get(key, default): the default only when the key is absent
get(d, key, default) == IF key \in d.absent THEN default ELSE d[key]
\* d.get(key, default) is None
IsNone(d, key) == key \notin d.absent /\ key \in d.nulls
\* `if d.get(key, False):` for a flag; None is falsy
Truthy(d, key) == (~IsNone(d, key)) /\ get(d, key, FALSE)
\* {}: no key at all
EmptyDict(d) == [d EXCEPT !.absent = DOMAIN d]

(***************************************************************************)
(* PriorityCalculatorAgent: the factor groups                              *)
(***************************************************************************)
\* the base hazards with HIGH just under odds of 60:40
BASE_HAZARDS_HighBelowThreshold(severity) ==
    CASE severity = "LOW" -> Thousandths(111)
      [] severity = "MEDIUM" -> Thousandths(429)
      [] severity = "HIGH" -> Thousandths(1499)
      [] severity = "EMERGENCY" -> Thousandths(5667)
      [] OTHER -> Thousandths(429)

\* the base hazards with the odds of EMERGENCY cut to two decimals
BASE_HAZARDS_TwoDecimals(severity) ==
    CASE severity = "LOW" -> Thousandths(111)
      [] severity = "MEDIUM" -> Thousandths(429)
      [] severity = "HIGH" -> Thousandths(1500)
      [] severity = "EMERGENCY" -> Thousandths(5670)
      [] OTHER -> Thousandths(429)

BASE_HAZARDS(severity) ==
    CASE severity = "LOW" -> Thousandths(111)
      [] severity = "MEDIUM" -> Thousandths(429)
      [] severity = "HIGH" -> Thousandths(1500)
      [] severity = "EMERGENCY" -> Thousandths(5667)
      [] OTHER -> Thousandths(429)

PriorityFactor(name, hazard_ratio, category) ==
    [name |-> name, hazard_ratio |-> hazard_ratio, category |-> category]
InteractionEffect(name, interaction_ratio) ==
    [name |-> name, interaction_ratio |-> interaction_ratio]

\* Apply that multiplies h without recording the factor
Apply_Unlisted(acc, cond, mult, item) ==
    IF cond THEN [h |-> DMul(acc.h, mult), factors |-> acc.factors]
    ELSE acc

\* `if cond: h *= mult; factors.append(item)` on the pair acc = (h, factors);
\* mult is the literal of the multiplication, the item carries its own ratio
Apply(acc, cond, mult, item) ==
    IF cond THEN [h |-> DMul(acc.h, mult),
                  factors |-> Append(acc.factors, item)]
    ELSE acc

_apply_life_safety_factors(h, description, key_factors) ==
    LET a0 == [h |-> h, factors |-> <<>>]
        a1 == Apply(a0, _check_keywords(description, "gas_leak")
                        \/ _check_key_factors(key_factors, {"gas"}),
                    400, PriorityFactor("Gas leak/smell", 400, "LIFE_SAFETY"))
        a2 == Apply(a1, _check_keywords(description, "fire_smoke")
                        \/ _check_key_factors(key_factors, {"fire", "smoke", "flames"}),
                    400, PriorityFactor("Fire/flames/smoke", 400, "LIFE_SAFETY"))
        a3 == Apply(a2, _check_keywords(description, "carbon_monoxide")
                        \/ _check_key_factors(key_factors, {"carbon monoxide", "co alarm"}),
                    400, PriorityFactor("Carbon monoxide alarm", 400, "LIFE_SAFETY"))
        a4 == Apply(a3, _check_keywords(description, "electrical_shock")
                        \/ _check_key_factors(key_factors,
                               {"spark", "shock", "arcing", "exposed wire"}),
                    300, PriorityFactor("Electrical shock hazard", 300, "LIFE_SAFETY"))
        a5 == Apply(a4, _check_keywords(description, "sewage")
                        \/ _check_key_factors(key_factors, {"sewage"}),
                    250, PriorityFactor("Sewage in living area", 250, "LIFE_SAFETY"))
    IN  a5

_apply_active_damage_factors(h, description, key_factors) ==
    LET a0 == [h |-> h, factors |-> <<>>]
        a1 == Apply(a0, _check_keywords(description, "water_spreading")
                        \/ _check_key_factors(key_factors,
                               {"spreading", "flooding", "water everywhere"}),
                    220, PriorityFactor("Water actively spreading", 220, "ACTIVE_DAMAGE"))
        a2 == Apply(a1, _check_keywords(description, "ceiling_drip")
                        \/ _check_key_factors(key_factors, {"ceiling", "dripping"}),
                    180, PriorityFactor("Ceiling dripping", 180, "ACTIVE_DAMAGE"))
        a3 == Apply(a2, _check_keywords(description, "getting_worse")
                        \/ _check_key_factors(key_factors,
                               {"worse", "spreading", "can't stop"}),
                    160, PriorityFactor("Situation escalating", 160, "ACTIVE_DAMAGE"))
        a4 == Apply(a3, _check_keywords(description, "evacuated")
                        \/ _check_key_factors(key_factors, {"evacuated", "evacuation"}),
                    200, PriorityFactor("Tenant evacuated", 200, "ACTIVE_DAMAGE"))
    IN  a4

_apply_vulnerability_factors(h, tenant) ==
    LET a0 == [h |-> h, factors |-> <<>>]
        a1 == Apply(a0, Truthy(tenant, "has_medical_condition"),
                    180, PriorityFactor("Medical condition", 180, "VULNERABILITY"))
        a2 == Apply(a1, Truthy(tenant, "has_infant"),
                    160, PriorityFactor("Infant present", 160, "VULNERABILITY"))
        a3 == Apply(a2, Truthy(tenant, "is_elderly") \/ get(tenant, "age", 0) >= 75,
                    150, PriorityFactor("Elderly tenant", 150, "VULNERABILITY"))
        a4 == Apply(a3, Truthy(tenant, "is_pregnant"),
                    140, PriorityFactor("Pregnant occupant", 140, "VULNERABILITY"))
    IN  a4

_apply_environmental_factors(h, weather, trade, description) ==
    LET temp == get(weather, "temperature", 70)
        is_heating_issue == trade = "HVAC" \/ _check_keywords(description, "no_heat")
        is_cooling_issue == trade = "HVAC" \/ _check_keywords(description, "no_ac")
        is_water_issue == trade = "PLUMBING"
        a0 == [h |-> h, factors |-> <<>>]
        \* if temp < 40 ... elif temp < 50 ...
        a1 == IF temp < 40 /\ is_heating_issue
              THEN Apply(a0, TRUE, 220,
                         PriorityFactor("No heat + extreme cold", 220, "ENVIRONMENTAL"))
              ELSE Apply(a0, temp < 50 /\ is_heating_issue, 160,
                         PriorityFactor("No heat + cold", 160, "ENVIRONMENTAL"))
        \* two further, independent if statements
        a2 == Apply(a1, temp > 95 /\ is_cooling_issue, 180,
                    PriorityFactor("No AC + extreme heat", 180, "ENVIRONMENTAL"))
        a3 == Apply(a2, temp < 32 /\ is_water_issue, 170,
                    PriorityFactor("Freeze risk", 170, "ENVIRONMENTAL"))
    IN  a3

\* the timing chain tested in the opposite order, weekend first
_apply_timing_factors_WeekendFirst(h, timing) ==
    LET a0 == [h |-> h, factors |-> <<>>]
    IN  IF Truthy(timing, "is_weekend")
        THEN Apply(a0, TRUE, 115, PriorityFactor("Weekend", 115, "TIMING"))
        ELSE IF Truthy(timing, "is_after_hours")
        THEN Apply(a0, TRUE, 125, PriorityFactor("After hours", 125, "TIMING"))
        ELSE IF Truthy(timing, "is_holiday")
        THEN Apply(a0, TRUE, 130, PriorityFactor("Holiday", 130, "TIMING"))
        ELSE Apply(a0, Truthy(timing, "is_late_night"), 135,
                   PriorityFactor("Late night", 135, "TIMING"))

\* the four timing tests as independent if statements
_apply_timing_factors_Independent(h, timing) ==
    LET a0 == [h |-> h, factors |-> <<>>]
        a1 == Apply(a0, Truthy(timing, "is_late_night"), 135,
                    PriorityFactor("Late night", 135, "TIMING"))
        a2 == Apply(a1, Truthy(timing, "is_holiday"), 130,
                    PriorityFactor("Holiday", 130, "TIMING"))
        a3 == Apply(a2, Truthy(timing, "is_after_hours"), 125,
                    PriorityFactor("After hours", 125, "TIMING"))
        a4 == Apply(a3, Truthy(timing, "is_weekend"), 115,
                    PriorityFactor("Weekend", 115, "TIMING"))
    IN  a4

_apply_timing_factors(h, timing) ==
    LET a0 == [h |-> h, factors |-> <<>>]
    IN  IF Truthy(timing, "is_late_night")
        THEN Apply(a0, TRUE, 135, PriorityFactor("Late night", 135, "TIMING"))
        ELSE IF Truthy(timing, "is_holiday")
        THEN Apply(a0, TRUE, 130, PriorityFactor("Holiday", 130, "TIMING"))
        ELSE IF Truthy(timing, "is_after_hours")
        THEN Apply(a0, TRUE, 125, PriorityFactor("After hours", 125, "TIMING"))
        ELSE Apply(a0, Truthy(timing, "is_weekend"), 115,
                   PriorityFactor("Weekend", 115, "TIMING"))

\* the recurrence tests as independent if statements
_apply_recurrence_factors_Independent(h, history, description) ==
    LET a0 == [h |-> h, factors |-> <<>>]
        recent_count == get(history, "recent_issues_count", 0)
        a1 == Apply(a0, recent_count >= 3
                        \/ _check_keywords(description, "third_time"), 200,
                    PriorityFactor("Third+ occurrence", 200, "RECURRENCE"))
        a2 == Apply(a1, Truthy(history, "previous_repair_failed")
                        \/ _check_keywords(description, "repair_failed"), 170,
                    PriorityFactor("Previous repair failed", 170, "RECURRENCE"))
        a3 == Apply(a2, recent_count >= 1, 150,
                    PriorityFactor("Recent similar issue", 150, "RECURRENCE"))
    IN  a3

_apply_recurrence_factors(h, history, description) ==
    LET a0 == [h |-> h, factors |-> <<>>]
        recent_count == get(history, "recent_issues_count", 0)
    IN  IF recent_count >= 3 \/ _check_keywords(description, "third_time")
        THEN Apply(a0, TRUE, 200,
                   PriorityFactor("Third+ occurrence", 200, "RECURRENCE"))
        ELSE IF Truthy(history, "previous_repair_failed")
                \/ _check_keywords(description, "repair_failed")
        THEN Apply(a0, TRUE, 170,
                   PriorityFactor("Previous repair failed", 170, "RECURRENCE"))
        ELSE Apply(a0, recent_count >= 1, 150,
                   PriorityFactor("Recent similar issue", 150, "RECURRENCE"))

_apply_property_factors(h, property_info, trade, description) ==
    LET a0 == [h |-> h, factors |-> <<>>]
        \* property_info.get("floor"): None when absent, falsy like 0
        floor == get(property_info, "floor", 0)
        total_units == get(property_info, "total_units", 1)
        a1 == Apply(a0, _check_keywords(description, "structural"),
                    160, PriorityFactor("Structural concern", 160, "PROPERTY_RISK"))
        \* `if floor and floor > 1 and trade == "PLUMBING"`
        a2 == Apply(a1, (~IsNone(property_info, "floor")) /\ floor # 0
                        /\ floor > 1 /\ trade = "PLUMBING",
                    150, PriorityFactor("Upper floor water leak", 150, "PROPERTY_RISK"))
        a3 == Apply(a2, total_units > 1,
                    140, PriorityFactor("Multi-unit building", 140, "PROPERTY_RISK"))
    IN  a3

_apply_essential_service_factors(h, description) ==
    LET a0 == [h |-> h, factors |-> <<>>]
        a1 == Apply(a0, _check_keywords(description, "locked_out"),
                    200, PriorityFactor("Cannot access unit", 200, "ESSENTIAL_SERVICE"))
        a2 == Apply(a1, _check_keywords(description, "no_power"),
                    190, PriorityFactor("No electricity", 190, "ESSENTIAL_SERVICE"))
        a3 == Apply(a2, _check_keywords(description, "no_water"),
                    180, PriorityFactor("No running water", 180, "ESSENTIAL_SERVICE"))
        a4 == Apply(a3, _check_keywords(description, "no_toilet"),
                    170, PriorityFactor("No toilet function", 170, "ESSENTIAL_SERVICE"))
    IN  a4

\* any(f for f in applied_factors if needle in f.name.lower())
AnyNamed(applied_factors, needle) ==
    \E i \in 1..Len(applied_factors) :
        Contains(Chars(needle), Lower(Chars(applied_factors[i].name)))
HasCategory(applied_factors, category) ==
    \E i \in 1..Len(applied_factors) : applied_factors[i].category = category
CountCategory(applied_factors, category) ==
    Cardinality({i \in 1..Len(applied_factors) :
                    applied_factors[i].category = category})

\* Recurrence x High Severity applied whatever the severity
_apply_interactions_AnySeverity(h, severity, applied_factors, trade, property_info, timing) ==
    LET a0 == [h |-> h, factors |-> <<>>]
        has_vulnerability == HasCategory(applied_factors, "VULNERABILITY")
        has_environmental == HasCategory(applied_factors, "ENVIRONMENTAL")
        a1 == Apply(a0, has_vulnerability /\ has_environmental, 150,
                    InteractionEffect("Vulnerability x Environmental", 150))
        has_water == AnyNamed(applied_factors, "water")
        has_electrical == trade = "ELECTRICAL"
                          \/ AnyNamed(applied_factors, "electrical")
        a2 == Apply(a1, has_water /\ has_electrical, 160,
                    InteractionEffect("Water x Electrical", 160))
        has_recurrence == HasCategory(applied_factors, "RECURRENCE")
        is_high_severity == severity \in {"HIGH", "EMERGENCY"}
        a3 == Apply(a2, has_recurrence, 140,
                    InteractionEffect("Recurrence x High Severity", 140))
        total_units == get(property_info, "total_units", 1)
        has_spreading == AnyNamed(applied_factors, "spreading")
                         \/ AnyNamed(applied_factors, "worse")
        a4 == Apply(a3, total_units > 1 /\ has_spreading, 150,
                    InteractionEffect("Multi-unit x Spreading", 150))
        is_late_night == Truthy(timing, "is_late_night")
        is_emergency == severity = "EMERGENCY"
        a5 == Apply(a4, is_late_night /\ is_emergency, 125,
                    InteractionEffect("Late Night x Emergency", 125))
        vulnerability_count == CountCategory(applied_factors, "VULNERABILITY")
        a6 == Apply(a5, vulnerability_count >= 2, 130,
                    InteractionEffect("Multiple Vulnerabilities", 130))
    IN  a6

_apply_interactions(h, severity, applied_factors, trade, property_info, timing) ==
    LET a0 == [h |-> h, factors |-> <<>>]
        has_vulnerability == HasCategory(applied_factors, "VULNERABILITY")
        has_environmental == HasCategory(applied_factors, "ENVIRONMENTAL")
        a1 == Apply(a0, has_vulnerability /\ has_environmental, 150,
                    InteractionEffect("Vulnerability x Environmental", 150))
        has_water == AnyNamed(applied_factors, "water")
        has_electrical == trade = "ELECTRICAL"
                          \/ AnyNamed(applied_factors, "electrical")
        a2 == Apply(a1, has_water /\ has_electrical, 160,
                    InteractionEffect("Water x Electrical", 160))
        has_recurrence == HasCategory(applied_factors, "RECURRENCE")
        is_high_severity == severity \in {"HIGH", "EMERGENCY"}
        a3 == Apply(a2, has_recurrence /\ is_high_severity, 140,
                    InteractionEffect("Recurrence x High Severity", 140))
        total_units == get(property_info, "total_units", 1)
        has_spreading == AnyNamed(applied_factors, "spreading")
                         \/ AnyNamed(applied_factors, "worse")
        a4 == Apply(a3, total_units > 1 /\ has_spreading, 150,
                    InteractionEffect("Multi-unit x Spreading", 150))
        is_late_night == Truthy(timing, "is_late_night")
        is_emergency == severity = "EMERGENCY"
        a5 == Apply(a4, is_late_night /\ is_emergency, 125,
                    InteractionEffect("Late Night x Emergency", 125))
        vulnerability_count == CountCategory(applied_factors, "VULNERABILITY")
        a6 == Apply(a5, vulnerability_count >= 2, 130,
                    InteractionEffect("Multiple Vulnerabilities", 130))
    IN  a6

(***************************************************************************)
(* Reading the request, and the exceptions of missing values.  Each        *)
(* operator *_raises gives the exception its lines end with for the given  *)
(* input, "" when they run through.                                        *)
(***************************************************************************)
\* request_data is kept flat: description is request_data["request"]
\* ["description"], the other fields are the sections of request_data
\* ["context"]; "request" and "context" appear in absent and nulls only.
EmptyDescription == [phrases |-> {}, filler |-> 0]
\* lines 137-139
DescriptionOf(request_data) ==
    IF "request" \in request_data.absent \/ "description" \in request_data.absent
    THEN EmptyDescription
    ELSE request_data.description
\* lines 142-147: context.get(key, {}) of context = request_data.get("context", {})
Section(request_data, key) ==
    IF "context" \in request_data.absent \/ key \in request_data.absent
    THEN EmptyDict(request_data[key])
    ELSE request_data[key]
SectionIsNone(request_data, key) ==
    "context" \notin request_data.absent /\ IsNone(request_data, key)

\* lines 131-147: None.upper(), None.get(...), None.lower()
calculate_priority_raises(triage_output, request_data) ==
    IF IsNone(triage_output, "severity") \/ IsNone(triage_output, "trade")
    THEN "AttributeError"
    ELSE IF "request" \notin request_data.absent
            /\ ("request" \in request_data.nulls
                \/ IsNone(request_data, "description"))
    THEN "AttributeError"
    ELSE IF IsNone(request_data, "context") THEN "AttributeError"
    ELSE ""

\* _check_key_factors iterates key_factors (line 227); it is called for a
\* concept whenever _check_keywords is false for it (`or` short-circuits)
_check_key_factors_raises(triage_output, description, pattern_keys) ==
    IF IsNone(triage_output, "key_factors")
       /\ \E k \in pattern_keys : ~_check_keywords(description, k)
    THEN "TypeError" ELSE ""

_apply_life_safety_factors_raises(triage_output, description) ==
    _check_key_factors_raises(triage_output, description,
        {"gas_leak", "fire_smoke", "carbon_monoxide", "electrical_shock",
         "sewage"})

_apply_active_damage_factors_raises(triage_output, description) ==
    _check_key_factors_raises(triage_output, description,
        {"water_spreading", "ceiling_drip", "getting_worse", "evacuated"})

\* line 365: tenant.get on None; line 389: None >= 75 unless is_elderly
_apply_vulnerability_factors_raises(request_data) ==
    IF SectionIsNone(request_data, "tenant") THEN "AttributeError"
    ELSE IF IsNone(Section(request_data, "tenant"), "age")
            /\ ~Truthy(Section(request_data, "tenant"), "is_elderly")
    THEN "TypeError" ELSE ""

\* line 417: weather.get on None; line 424: None < 40
_apply_environmental_factors_raises(request_data) ==
    IF SectionIsNone(request_data, "weather") THEN "AttributeError"
    ELSE IF IsNone(Section(request_data, "weather"), "temperature")
    THEN "TypeError" ELSE ""

\* line 475: timing.get on None; a flag that is None is only falsy
_apply_timing_factors_raises(request_data) ==
    IF SectionIsNone(request_data, "timing") THEN "AttributeError" ELSE ""

\* line 524: history.get on None; line 525: None >= 3
_apply_recurrence_factors_raises(request_data) ==
    IF SectionIsNone(request_data, "history") THEN "AttributeError"
    ELSE IF IsNone(Section(request_data, "history"), "recent_issues_count")
    THEN "TypeError" ELSE ""

\* line 577: property_info.get on None; line 590: None > 1
_apply_property_factors_raises(request_data) ==
    IF SectionIsNone(request_data, "property") THEN "AttributeError"
    ELSE IF IsNone(Section(request_data, "property"), "total_units")
    THEN "TypeError" ELSE ""

\* the score with the parentheses lost: 100 * h / h + 1
ScoreOf_Misparenthesised(h) == Frac(BMulSmall(h.m, 101), h.m)

\* priority_score = (100 * h) / (h + 1)
ScoreOf(h) == Frac(BMulSmall(h.m, 100), BAdd(h.m, BShift10(<<1>>, h.e)))

\* _calculate_confidence, in hundredths
_calculate_confidence(applied_factors, severity, description) ==
    LET c0 == 85
        c1 == IF Len(applied_factors) >= 3 THEN c0 + 5
              ELSE IF Len(applied_factors) = 0 THEN c0 - 10 ELSE c0
        c2 == IF severity \in {"EMERGENCY", "LOW"} THEN c1 + 5 ELSE c1
        c3 == IF DescriptionLen(description) > 100 THEN c2 + 5
              ELSE IF DescriptionLen(description) < 20 THEN c2 - 10 ELSE c2
        lo == IF c3 < 100 THEN c3 ELSE 100
    IN  IF lo > 50 THEN lo ELSE 50

\* PriorityResult.to_dict: the fields the pipeline hands on; the score is
\* round(priority_score, 1), kept in tenths
PriorityResult_to_dict(r) ==
    [priority_score |-> RoundTenths(r.priority_score),
     severity |-> r.severity,
     confidence |-> r.confidence]

\* calculate_priority as a function of its two arguments, for an input on
\* which no line raises: the value of the PriorityResult returned
calculate_priority(triage_output, request_data) ==
    LET severity == Upper(get(triage_output, "severity", "MEDIUM"))
        trade == Upper(get(triage_output, "trade", "GENERAL"))
        key_factors == get(triage_output, "key_factors", {})
        description == DescriptionOf(request_data)
        weather == Section(request_data, "weather")
        tenant == Section(request_data, "tenant")
        property_info == Section(request_data, "property")
        timing == Section(request_data, "timing")
        history == Section(request_data, "history")
        base_hazard == BASE_HAZARDS(severity)
        s2 == _apply_life_safety_factors(base_hazard, description, key_factors)
        s3 == _apply_active_damage_factors(s2.h, description, key_factors)
        s4 == _apply_vulnerability_factors(s3.h, tenant)
        s5 == _apply_environmental_factors(s4.h, weather, trade, description)
        s6 == _apply_timing_factors(s5.h, timing)
        s7 == _apply_recurrence_factors(s6.h, history, description)
        s8 == _apply_property_factors(s7.h, property_info, trade, description)
        s9 == _apply_essential_service_factors(s8.h, description)
        applied_factors == s2.factors \o s3.factors \o s4.factors \o s5.factors
                           \o s6.factors \o s7.factors \o s8.factors
                           \o s9.factors
        s10 == _apply_interactions(s9.h, severity, applied_factors, trade,
                                   property_info, timing)
    IN  [priority_score |-> ScoreOf(s10.h),
         severity |-> severity,
         base_hazard |-> base_hazard,
         combined_hazard |-> s10.h,
         applied_factors |-> applied_factors,
         applied_interactions |-> s10.factors,
         confidence |-> _calculate_confidence(applied_factors, severity,
                                              description),
         returned |-> TRUE]

(***************************************************************************)
(* State                                                                   *)
(***************************************************************************)
VARIABLES
    pc,                  \* position of the request in the pipeline
    entry,               \* "pipeline": score from calculate_priority;
                         \* "direct": calculate_sla called with a given score
    args,                \* arguments of SLAMapperAgent(...)
    agent,               \* fields of the constructed SLAMapperAgent
    priority_score,      \* argument of calculate_sla, in tenths
    submission_time,     \* argument of calculate_sla
    sla,                 \* tier, response_hours, ... chosen by calculate_sla
    call,                \* which deadline the walker is computing
    current,             \* _calculate_business_hours_deadline: current
    hours_remaining,     \* _calculate_business_hours_deadline, in minutes
    next_day,            \* _move_to_next_business_period: next_day
    response_deadline,
    resolution_deadline,
    sla_result,          \* the SLAResult returned, or NoResult
    loop_passes,         \* passes of the while loop of the current walker call
    skip_iters,          \* iterations of the skip loop of the current move
    triage_output,       \* argument of calculate_priority: severity, trade,
                         \* key_factors
    request_data,        \* argument of calculate_priority: description, context
    severity,            \* calculate_priority: severity (upper-cased)
    base_hazard,         \* calculate_priority: base_hazard
    h,                   \* calculate_priority: h
    applied_factors,
    applied_interactions,
    priority_result,     \* the PriorityResult returned, or NoPriorityResult
    priority_parsed,     \* triage_pipeline: priority_calc_result.to_dict()
    calls                \* calls the two agents have served before this one

slaVars == <<args, agent, priority_score, submission_time, sla, call, current,
             hours_remaining, next_day, response_deadline, resolution_deadline,
             sla_result, loop_passes, skip_iters>>

NoAgent == [business_hours_start |-> -1, business_hours_end |-> -1,
            business_days |-> {}, constructed |-> FALSE]
NoSla == [tier |-> "", response_hours |-> 0, resolution_hours |-> 0,
          business_hours_only |-> FALSE, vendor_tier |-> ""]
NoResult == [tier |-> "", response_deadline |-> -1, resolution_deadline |-> -1,
             response_hours |-> 0, resolution_hours |-> 0,
             business_hours_only |-> FALSE, vendor_tier |-> ""]
NoTime == -1

priVars == <<triage_output, request_data, severity, base_hazard, h,
             applied_factors, applied_interactions, priority_result,
             priority_parsed>>
vars == <<pc, entry, calls, args, agent, priority_score, submission_time, sla, call,
          current, hours_remaining, next_day, response_deadline,
          resolution_deadline, sla_result, loop_passes, skip_iters,
          triage_output, request_data, severity, base_hazard, h,
          applied_factors, applied_interactions, priority_result,
          priority_parsed>>

NoDec == [m |-> <<>>, e |-> 0]
NoFrac == [num |-> <<>>, den |-> <<1>>]
NoPriorityResult ==
    [priority_score |-> NoFrac, severity |-> "", base_hazard |-> NoDec,
     combined_hazard |-> NoDec, applied_factors |-> <<>>,
     applied_interactions |-> <<>>, confidence |-> 0, returned |-> FALSE]
NoParsed == [priority_score |-> -1, severity |-> "", confidence |-> 0]

(***************************************************************************)
(* SLAMapperAgent                                                          *)
(***************************************************************************)
\* business_days if business_days is not None else [0, 1, 2, 3, 4]: an empty
\* list kept
BusinessDaysOrDefault_KeepsEmpty(days) ==
    IF ~days.given THEN {0, 1, 2, 3, 4} ELSE days.list

\* business_days or [0, 1, 2, 3, 4]: None and the empty list are both falsy
BusinessDaysOrDefault(days) ==
    IF (~days.given) \/ days.list = {} THEN {0, 1, 2, 3, 4} ELSE days.list

\* SLAMapperAgent.__init__: stores its arguments, validates nothing
SLAMapperAgent_init(a) ==
    [business_hours_start |-> a.business_hours_start,
     business_hours_end   |-> a.business_hours_end,
     business_days        |-> BusinessDaysOrDefault(a.business_days),
     constructed          |-> TRUE]

\* the tier table with thresholds that exclude the boundary score
TierRow_StrictThresholds(score) ==
    IF score > 800 THEN
        [tier |-> "EMERGENCY", response_hours |-> 4, resolution_hours |-> 24,
         business_hours_only |-> FALSE, vendor_tier |-> "Premium only"]
    ELSE IF score > 600 THEN
        [tier |-> "HIGH", response_hours |-> 24, resolution_hours |-> 48,
         business_hours_only |-> TRUE, vendor_tier |-> "Preferred + Premium"]
    ELSE IF score > 250 THEN
        [tier |-> "MEDIUM", response_hours |-> 48, resolution_hours |-> 120,
         business_hours_only |-> TRUE, vendor_tier |-> "All qualified"]
    ELSE
        [tier |-> "LOW", response_hours |-> 72, resolution_hours |-> 168,
         business_hours_only |-> TRUE, vendor_tier |-> "Any available"]

\* the tier table with EMERGENCY deadlines counted in business hours
TierRow_EmergencyInBusinessHours(score) ==
    IF score >= 800 THEN
        [tier |-> "EMERGENCY", response_hours |-> 4, resolution_hours |-> 24,
         business_hours_only |-> TRUE, vendor_tier |-> "Premium only"]
    ELSE IF score >= 600 THEN
        [tier |-> "HIGH", response_hours |-> 24, resolution_hours |-> 48,
         business_hours_only |-> TRUE, vendor_tier |-> "Preferred + Premium"]
    ELSE IF score >= 250 THEN
        [tier |-> "MEDIUM", response_hours |-> 48, resolution_hours |-> 120,
         business_hours_only |-> TRUE, vendor_tier |-> "All qualified"]
    ELSE
        [tier |-> "LOW", response_hours |-> 72, resolution_hours |-> 168,
         business_hours_only |-> TRUE, vendor_tier |-> "Any available"]

\* the tier table with LOW answered sooner than MEDIUM
TierRow_LowBeforeMedium(score) ==
    IF score >= 800 THEN
        [tier |-> "EMERGENCY", response_hours |-> 4, resolution_hours |-> 24,
         business_hours_only |-> FALSE, vendor_tier |-> "Premium only"]
    ELSE IF score >= 600 THEN
        [tier |-> "HIGH", response_hours |-> 24, resolution_hours |-> 48,
         business_hours_only |-> TRUE, vendor_tier |-> "Preferred + Premium"]
    ELSE IF score >= 250 THEN
        [tier |-> "MEDIUM", response_hours |-> 48, resolution_hours |-> 120,
         business_hours_only |-> TRUE, vendor_tier |-> "All qualified"]
    ELSE
        [tier |-> "LOW", response_hours |-> 40, resolution_hours |-> 168,
         business_hours_only |-> TRUE, vendor_tier |-> "Any available"]

\* the tier table with a HIGH response budget of 20 hours
TierRow_HighTwentyHours(score) ==
    IF score >= 800 THEN
        [tier |-> "EMERGENCY", response_hours |-> 4, resolution_hours |-> 24,
         business_hours_only |-> FALSE, vendor_tier |-> "Premium only"]
    ELSE IF score >= 600 THEN
        [tier |-> "HIGH", response_hours |-> 20, resolution_hours |-> 48,
         business_hours_only |-> TRUE, vendor_tier |-> "Preferred + Premium"]
    ELSE IF score >= 250 THEN
        [tier |-> "MEDIUM", response_hours |-> 48, resolution_hours |-> 120,
         business_hours_only |-> TRUE, vendor_tier |-> "All qualified"]
    ELSE
        [tier |-> "LOW", response_hours |-> 72, resolution_hours |-> 168,
         business_hours_only |-> TRUE, vendor_tier |-> "Any available"]

\* the tier table with the two budgets of HIGH exchanged
TierRow_HighHoursSwapped(score) ==
    IF score >= 800 THEN
        [tier |-> "EMERGENCY", response_hours |-> 4, resolution_hours |-> 24,
         business_hours_only |-> FALSE, vendor_tier |-> "Premium only"]
    ELSE IF score >= 600 THEN
        [tier |-> "HIGH", response_hours |-> 48, resolution_hours |-> 24,
         business_hours_only |-> TRUE, vendor_tier |-> "Preferred + Premium"]
    ELSE IF score >= 250 THEN
        [tier |-> "MEDIUM", response_hours |-> 48, resolution_hours |-> 120,
         business_hours_only |-> TRUE, vendor_tier |-> "All qualified"]
    ELSE
        [tier |-> "LOW", response_hours |-> 72, resolution_hours |-> 168,
         business_hours_only |-> TRUE, vendor_tier |-> "Any available"]

\* the tier table of calculate_sla; score in tenths
TierRow(score) ==
    IF score >= 800 THEN
        [tier |-> "EMERGENCY", response_hours |-> 4, resolution_hours |-> 24,
         business_hours_only |-> FALSE, vendor_tier |-> "Premium only"]
    ELSE IF score >= 600 THEN
        [tier |-> "HIGH", response_hours |-> 24, resolution_hours |-> 48,
         business_hours_only |-> TRUE, vendor_tier |-> "Preferred + Premium"]
    ELSE IF score >= 250 THEN
        [tier |-> "MEDIUM", response_hours |-> 48, resolution_hours |-> 120,
         business_hours_only |-> TRUE, vendor_tier |-> "All qualified"]
    ELSE
        [tier |-> "LOW", response_hours |-> 72, resolution_hours |-> 168,
         business_hours_only |-> TRUE, vendor_tier |-> "Any available"]

_is_business_time(ag, dt) ==
    LET is_business_day == weekday(dt) \in ag.business_days
        is_business_hour == ag.business_hours_start <= HourOf(dt)
                            /\ HourOf(dt) < ag.business_hours_end
    IN  is_business_day /\ is_business_hour

\* the first branch of _move_to_next_business_period
BeforeBusinessHoursToday(ag, dt) ==
    HourOf(dt) < ag.business_hours_start /\ weekday(dt) \in ag.business_days

\* WalkerLoopBody without the end-of-day test: the remaining hours are
\* added to the current position whatever is left of the business day
WalkerLoopBody_IgnoresDayEnd(ag, cur, rem) ==
    IF _is_business_time(ag, cur)
    THEN [kind |-> "return", value |-> AddMinutes(cur, rem),
          current |-> cur, hours_remaining |-> rem]
    ELSE [kind |-> "move", value |-> NoTime,
          current |-> cur, hours_remaining |-> rem]

\* WalkerLoopBody with `<` for `<=`: a budget that ends exactly at the close
\* of the day is carried over to the next business day
WalkerLoopBody_StrictCompare(ag, cur, rem) ==
    IF _is_business_time(ag, cur)
    THEN LET day_end == ReplaceHour(cur, ag.business_hours_end)
             hours_available == day_end - cur
         IN  IF rem < hours_available
             THEN [kind |-> "return", value |-> AddMinutes(cur, rem),
                   current |-> cur, hours_remaining |-> rem]
             ELSE [kind |-> "move", value |-> NoTime,
                   current |-> day_end, hours_remaining |-> rem - hours_available]
    ELSE [kind |-> "move", value |-> NoTime,
          current |-> cur, hours_remaining |-> rem]

\* WalkerLoopBody that forgets `hours_remaining -= hours_available`
WalkerLoopBody_NoProgress(ag, cur, rem) ==
    IF _is_business_time(ag, cur)
    THEN LET day_end == ReplaceHour(cur, ag.business_hours_end)
             hours_available == day_end - cur
         IN  IF rem <= hours_available
             THEN [kind |-> "return", value |-> AddMinutes(cur, rem),
                   current |-> cur, hours_remaining |-> rem]
             ELSE [kind |-> "move", value |-> NoTime,
                   current |-> day_end, hours_remaining |-> rem]
    ELSE [kind |-> "move", value |-> NoTime,
          current |-> cur, hours_remaining |-> rem]

\* one pass of the while loop of _calculate_business_hours_deadline, entered
\* with hours_remaining > 0: either the deadline is returned, or the walker
\* goes on to _move_to_next_business_period
WalkerLoopBody(ag, cur, rem) ==
    IF _is_business_time(ag, cur)
    THEN LET day_end == ReplaceHour(cur, ag.business_hours_end)
             hours_available == day_end - cur
         IN  IF rem <= hours_available
             THEN [kind |-> "return", value |-> AddMinutes(cur, rem),
                   current |-> cur, hours_remaining |-> rem]
             ELSE [kind |-> "move", value |-> NoTime,
                   current |-> day_end, hours_remaining |-> rem - hours_available]
    ELSE [kind |-> "move", value |-> NoTime,
          current |-> cur, hours_remaining |-> rem]

\* the hours the walker is asked for by calculate_sla, per call
HoursNeeded(row, c) ==
    IF c = "response" THEN row.response_hours ELSE row.resolution_hours

(***************************************************************************)
(* calculate_sla as a function of the agent's fields and its two arguments *)
(***************************************************************************)
\* _move_to_next_business_period, lines 205-207: the skip loop
RECURSIVE SkipLoop(_, _)
SkipLoop(ag, nd) ==
    IF nd = Overflow THEN Overflow
    ELSE IF weekday(nd) \notin ag.business_days THEN SkipLoop(ag, AddDay(nd))
    ELSE nd

_move_to_next_business_period(ag, dt) ==
    IF BeforeBusinessHoursToday(ag, dt)
    THEN ReplaceHour(dt, ag.business_hours_start)
    ELSE LET nd == AddDay(dt)
         IN  IF nd = Overflow THEN Overflow
             ELSE SkipLoop(ag, ReplaceHour(nd, ag.business_hours_start))

\* _calculate_business_hours_deadline, lines 152-177: the while loop, hours
\* in minutes
RECURSIVE WhileHoursRemain(_, _, _)
WhileHoursRemain(ag, cur, rem) ==
    IF rem > 0
    THEN LET b == WalkerLoopBody(ag, cur, rem)
         IN  IF b.kind = "return" THEN b.value
             ELSE LET nx == _move_to_next_business_period(ag, b.current)
                  IN  IF nx = Overflow THEN Overflow
                      ELSE WhileHoursRemain(ag, nx, b.hours_remaining)
    ELSE cur

_calculate_business_hours_deadline(ag, start_time, hours) ==
    LET cur == _move_to_next_business_period(ag, start_time)
    IN  IF cur = Overflow THEN Overflow
        ELSE WhileHoursRemain(ag, cur, hours * 60)

\* the SLAResult returned, NoResult when the datetime arithmetic overflows
calculate_sla(ag, score, start_time) ==
    LET row == TierRow(score)
        rd == IF row.business_hours_only
              THEN _calculate_business_hours_deadline(ag, start_time,
                                                      row.response_hours)
              ELSE AddMinutes(start_time, row.response_hours * 60)
        sd == IF row.business_hours_only
              THEN _calculate_business_hours_deadline(ag, start_time,
                                                      row.resolution_hours)
              ELSE AddMinutes(start_time, row.resolution_hours * 60)
    IN  IF rd = Overflow \/ sd = Overflow THEN NoResult
        ELSE [tier |-> row.tier,
              response_deadline |-> rd,
              resolution_deadline |-> sd,
              response_hours |-> row.response_hours,
              resolution_hours |-> row.resolution_hours,
              business_hours_only |-> row.business_hours_only,
              vendor_tier |-> row.vendor_tier]

(***************************************************************************)
(* Actions of the SLA mapper                                               *)
(***************************************************************************)
\* SLAMapperAgent(...)
Construct ==
    /\ pc = "construct"
    /\ agent' = SLAMapperAgent_init(args)
    /\ pc' = IF entry = "direct" THEN "calculate_sla" ELSE "calculate_priority"
    /\ UNCHANGED priVars
    /\ UNCHANGED <<entry, calls, args, priority_score, submission_time, sla, call,
                   current, hours_remaining, next_day, response_deadline,
                   resolution_deadline, sla_result, loop_passes, skip_iters>>

\* calculate_sla, lines 82-119: tier row, then either the 24/7 arithmetic or
\* the first call of the walker
CalculateSla ==
    /\ pc = "calculate_sla"
    /\ LET row == TierRow(priority_score)
       IN  /\ sla' = row
           /\ IF row.business_hours_only
              THEN /\ call' = "response"
                   /\ pc' = "walker_start"
                   /\ UNCHANGED <<response_deadline, resolution_deadline>>
              ELSE LET rd == AddMinutes(submission_time, row.response_hours * 60)
                       sd == AddMinutes(submission_time, row.resolution_hours * 60)
                   IN  /\ response_deadline' = rd
                       /\ resolution_deadline' = sd
                       /\ pc' = IF rd = Overflow \/ sd = Overflow
                                THEN "error" ELSE "sla_return"
                       /\ UNCHANGED call
    /\ UNCHANGED priVars
    /\ UNCHANGED <<entry, calls, args, agent, priority_score, submission_time, current,
                   hours_remaining, next_day, sla_result, loop_passes, skip_iters>>

\* _calculate_business_hours_deadline, lines 146-150
WalkerStart ==
    /\ pc = "walker_start"
    /\ current' = submission_time
    /\ hours_remaining' = HoursNeeded(sla, call) * 60
    /\ loop_passes' = 0
    /\ pc' = "move"
    /\ UNCHANGED priVars
    /\ UNCHANGED <<entry, calls, args, agent, priority_score, submission_time, sla, call,
                   next_day, response_deadline, resolution_deadline, sla_result,
                   skip_iters>>

\* _move_to_next_business_period, lines 185-203
MoveToNextBusinessPeriod ==
    /\ pc = "move"
    /\ IF BeforeBusinessHoursToday(agent, current)
       THEN /\ current' = ReplaceHour(current, agent.business_hours_start)
            /\ pc' = "loop"
            /\ UNCHANGED <<next_day, skip_iters>>
       ELSE LET nd == AddDay(current)
            IN  /\ next_day' = IF nd = Overflow THEN Overflow
                               ELSE ReplaceHour(nd, agent.business_hours_start)
                /\ pc' = IF nd = Overflow THEN "error" ELSE "skip"
                /\ skip_iters' = 0
                /\ UNCHANGED current
    /\ UNCHANGED priVars
    /\ UNCHANGED <<entry, calls, args, agent, priority_score, submission_time, sla, call,
                   hours_remaining, response_deadline, resolution_deadline,
                   sla_result, loop_passes>>

\* _move_to_next_business_period, lines 205-209: one test of the skip loop
SkipNonBusinessDay ==
    /\ pc = "skip"
    /\ IF weekday(next_day) \notin agent.business_days
       THEN LET nd == AddDay(next_day)
            IN  /\ next_day' = nd
                /\ skip_iters' = skip_iters + 1
                /\ pc' = IF nd = Overflow THEN "error" ELSE "skip"
                /\ UNCHANGED current
       ELSE /\ current' = next_day
            /\ pc' = "loop"
            /\ UNCHANGED <<next_day, skip_iters>>
    /\ UNCHANGED priVars
    /\ UNCHANGED <<entry, calls, args, agent, priority_score, submission_time, sla, call,
                   hours_remaining, response_deadline, resolution_deadline,
                   sla_result, loop_passes>>

\* the walker returns `value` to calculate_sla (lines 110-115)
WalkerReturns(value) ==
    IF value = Overflow
    THEN /\ pc' = "error"
         /\ UNCHANGED <<call, response_deadline, resolution_deadline>>
    ELSE IF call = "response"
    THEN /\ response_deadline' = value
         /\ call' = "resolution"
         /\ pc' = "walker_start"
         /\ UNCHANGED resolution_deadline
    ELSE /\ resolution_deadline' = value
         /\ pc' = "sla_return"
         /\ UNCHANGED <<call, response_deadline>>

\* _calculate_business_hours_deadline, lines 152-177: one test of the while
\* condition and, when it holds, one pass of the body
WalkerLoop ==
    /\ pc = "loop"
    /\ IF hours_remaining > 0
       THEN LET b == WalkerLoopBody(agent, current, hours_remaining)
            IN  /\ loop_passes' = loop_passes + 1
                /\ IF b.kind = "return"
                   THEN /\ WalkerReturns(b.value)
                        /\ UNCHANGED <<current, hours_remaining>>
                   ELSE /\ current' = b.current
                        /\ hours_remaining' = b.hours_remaining
                        /\ pc' = "move"
                        /\ UNCHANGED <<call, response_deadline, resolution_deadline>>
       ELSE /\ WalkerReturns(current)
            /\ UNCHANGED <<current, hours_remaining, loop_passes>>
    /\ UNCHANGED priVars
    /\ UNCHANGED <<entry, calls, args, agent, priority_score, submission_time, sla,
                   next_day, sla_result, skip_iters>>

\* calculate_sla, lines 121-129
SlaReturn ==
    /\ pc = "sla_return"
    /\ sla_result' = [tier |-> sla.tier,
                      response_deadline |-> response_deadline,
                      resolution_deadline |-> resolution_deadline,
                      response_hours |-> sla.response_hours,
                      resolution_hours |-> sla.resolution_hours,
                      business_hours_only |-> sla.business_hours_only,
                      vendor_tier |-> sla.vendor_tier]
    /\ pc' = "done"
    /\ UNCHANGED priVars
    /\ UNCHANGED <<entry, calls, args, agent, priority_score, submission_time, sla, call,
                   current, hours_remaining, next_day, response_deadline,
                   resolution_deadline, loop_passes, skip_iters>>

(***************************************************************************)
(* Actions of calculate_priority                                           *)
(***************************************************************************)
\* an exception leaves calculate_priority: no PriorityResult is returned
Raise(e) ==
    /\ pc' = e
    /\ UNCHANGED <<entry, calls>>
    /\ UNCHANGED slaVars
    /\ UNCHANGED priVars

\* GetBaseHazard with the factor list kept from one call to the next, as a
\* list held by the agent would be
GetBaseHazard_KeepsFactors ==
    /\ pc = "calculate_priority"
    /\ LET e == calculate_priority_raises(triage_output, request_data)
       IN  IF e # "" THEN Raise(e)
           ELSE
             /\ severity' = Upper(get(triage_output, "severity", "MEDIUM"))
             /\ base_hazard' =
                    BASE_HAZARDS(Upper(get(triage_output, "severity", "MEDIUM")))
             /\ h' = BASE_HAZARDS(Upper(get(triage_output, "severity", "MEDIUM")))
             /\ applied_factors' = applied_factors
             /\ applied_interactions' = <<>>
             /\ pc' = "life_safety"
             /\ UNCHANGED slaVars
             /\ UNCHANGED <<entry, calls, triage_output, request_data, priority_result,
                            priority_parsed>>

\* calculate_priority, lines 131-157: inputs read, base hazard looked up
GetBaseHazard ==
    /\ pc = "calculate_priority"
    /\ LET e == calculate_priority_raises(triage_output, request_data)
       IN  IF e # "" THEN Raise(e)
           ELSE
             /\ severity' = Upper(get(triage_output, "severity", "MEDIUM"))
             /\ base_hazard' =
                    BASE_HAZARDS(Upper(get(triage_output, "severity", "MEDIUM")))
             /\ h' = BASE_HAZARDS(Upper(get(triage_output, "severity", "MEDIUM")))
             /\ applied_factors' = <<>>
             /\ applied_interactions' = <<>>
             /\ pc' = "life_safety"
             /\ UNCHANGED slaVars
             /\ UNCHANGED <<entry, calls, triage_output, request_data, priority_result,
                            priority_parsed>>

\* calculate_priority, lines 159-161
ApplyLifeSafety ==
    /\ pc = "life_safety"
    /\ LET e == _apply_life_safety_factors_raises(triage_output,
                    DescriptionOf(request_data))
       IN  IF e # "" THEN Raise(e)
           ELSE
             /\ LET r == _apply_life_safety_factors(h, DescriptionOf(request_data),
                             get(triage_output, "key_factors", {}))
                IN  /\ h' = r.h
                    /\ applied_factors' = applied_factors \o r.factors
             /\ pc' = "active_damage"
             /\ UNCHANGED slaVars
             /\ UNCHANGED <<entry, calls, triage_output, request_data, severity,
                            base_hazard, applied_interactions, priority_result,
                            priority_parsed>>

\* calculate_priority, lines 163-165
ApplyActiveDamage ==
    /\ pc = "active_damage"
    /\ LET e == _apply_active_damage_factors_raises(triage_output,
                    DescriptionOf(request_data))
       IN  IF e # "" THEN Raise(e)
           ELSE
             /\ LET r == _apply_active_damage_factors(h, DescriptionOf(request_data),
                             get(triage_output, "key_factors", {}))
                IN  /\ h' = r.h
                    /\ applied_factors' = applied_factors \o r.factors
             /\ pc' = "vulnerability"
             /\ UNCHANGED slaVars
             /\ UNCHANGED <<entry, calls, triage_output, request_data, severity,
                            base_hazard, applied_interactions, priority_result,
                            priority_parsed>>

\* calculate_priority, lines 167-169
ApplyVulnerability ==
    /\ pc = "vulnerability"
    /\ LET e == _apply_vulnerability_factors_raises(request_data)
       IN  IF e # "" THEN Raise(e)
           ELSE
             /\ LET r == _apply_vulnerability_factors(h,
                             Section(request_data, "tenant"))
                IN  /\ h' = r.h
                    /\ applied_factors' = applied_factors \o r.factors
             /\ pc' = "environmental"
             /\ UNCHANGED slaVars
             /\ UNCHANGED <<entry, calls, triage_output, request_data, severity,
                            base_hazard, applied_interactions, priority_result,
                            priority_parsed>>

\* calculate_priority, lines 171-173
ApplyEnvironmental ==
    /\ pc = "environmental"
    /\ LET e == _apply_environmental_factors_raises(request_data)
       IN  IF e # "" THEN Raise(e)
           ELSE
             /\ LET r == _apply_environmental_factors(h,
                             Section(request_data, "weather"),
                             Upper(get(triage_output, "trade", "GENERAL")), DescriptionOf(request_data))
                IN  /\ h' = r.h
                    /\ applied_factors' = applied_factors \o r.factors
             /\ pc' = "timing"
             /\ UNCHANGED slaVars
             /\ UNCHANGED <<entry, calls, triage_output, request_data, severity,
                            base_hazard, applied_interactions, priority_result,
                            priority_parsed>>

\* calculate_priority, lines 175-177
ApplyTiming ==
    /\ pc = "timing"
    /\ LET e == _apply_timing_factors_raises(request_data)
       IN  IF e # "" THEN Raise(e)
           ELSE
             /\ LET r == _apply_timing_factors(h, Section(request_data, "timing"))
                IN  /\ h' = r.h
                    /\ applied_factors' = applied_factors \o r.factors
             /\ pc' = "recurrence"
             /\ UNCHANGED slaVars
             /\ UNCHANGED <<entry, calls, triage_output, request_data, severity,
                            base_hazard, applied_interactions, priority_result,
                            priority_parsed>>

\* calculate_priority, lines 179-181
ApplyRecurrence ==
    /\ pc = "recurrence"
    /\ LET e == _apply_recurrence_factors_raises(request_data)
       IN  IF e # "" THEN Raise(e)
           ELSE
             /\ LET r == _apply_recurrence_factors(h,
                             Section(request_data, "history"), DescriptionOf(request_data))
                IN  /\ h' = r.h
                    /\ applied_factors' = applied_factors \o r.factors
             /\ pc' = "property"
             /\ UNCHANGED slaVars
             /\ UNCHANGED <<entry, calls, triage_output, request_data, severity,
                            base_hazard, applied_interactions, priority_result,
                            priority_parsed>>

\* calculate_priority, lines 183-185
ApplyProperty ==
    /\ pc = "property"
    /\ LET e == _apply_property_factors_raises(request_data)
       IN  IF e # "" THEN Raise(e)
           ELSE
             /\ LET r == _apply_property_factors(h,
                             Section(request_data, "property"),
                             Upper(get(triage_output, "trade", "GENERAL")), DescriptionOf(request_data))
                IN  /\ h' = r.h
                    /\ applied_factors' = applied_factors \o r.factors
             /\ pc' = "essential_service"
             /\ UNCHANGED slaVars
             /\ UNCHANGED <<entry, calls, triage_output, request_data, severity,
                            base_hazard, applied_interactions, priority_result,
                            priority_parsed>>

\* calculate_priority, lines 187-189
ApplyEssentialService ==
    /\ pc = "essential_service"
    /\ LET r == _apply_essential_service_factors(h, DescriptionOf(request_data))
       IN  /\ h' = r.h
           /\ applied_factors' = applied_factors \o r.factors
    /\ pc' = "interactions"
    /\ UNCHANGED slaVars
    /\ UNCHANGED <<entry, calls, triage_output, request_data, severity, base_hazard,
                   applied_interactions, priority_result, priority_parsed>>

\* ApplyInteractions deciding on the factors known before the property and
\* essential-service groups
ApplyInteractions_BeforeLastGroups ==
    /\ pc = "interactions"
    /\ LET r == _apply_interactions(h, severity,
                    SelectSeq(applied_factors,
                              LAMBDA f : f.category \notin
                                  {"PROPERTY_RISK", "ESSENTIAL_SERVICE"}),
                    Upper(get(triage_output, "trade", "GENERAL")),
                    Section(request_data, "property"),
                    Section(request_data, "timing"))
       IN  /\ h' = r.h
           /\ applied_interactions' = applied_interactions \o r.factors
    /\ pc' = "final_score"
    /\ UNCHANGED slaVars
    /\ UNCHANGED <<entry, calls, triage_output, request_data, severity, base_hazard,
                   applied_factors, priority_result, priority_parsed>>

\* calculate_priority, lines 191-196
ApplyInteractions ==
    /\ pc = "interactions"
    /\ LET r == _apply_interactions(h, severity, applied_factors,
                    Upper(get(triage_output, "trade", "GENERAL")),
                    Section(request_data, "property"),
                    Section(request_data, "timing"))
       IN  /\ h' = r.h
           /\ applied_interactions' = applied_interactions \o r.factors
    /\ pc' = "final_score"
    /\ UNCHANGED slaVars
    /\ UNCHANGED <<entry, calls, triage_output, request_data, severity, base_hazard,
                   applied_factors, priority_result, priority_parsed>>

\* FinalScore with the interactions counted among the factors
FinalScore_CountsInteractions ==
    /\ pc = "final_score"
    /\ priority_result' =
           [priority_score |-> ScoreOf(h),
            severity |-> severity,
            base_hazard |-> base_hazard,
            combined_hazard |-> h,
            applied_factors |-> applied_factors,
            applied_interactions |-> applied_interactions,
            confidence |-> _calculate_confidence(applied_factors \o applied_interactions, severity,
                                                 DescriptionOf(request_data)),
            returned |-> TRUE]
    /\ pc' = "to_dict"
    /\ UNCHANGED slaVars
    /\ UNCHANGED <<entry, calls, triage_output, request_data, severity, base_hazard, h,
                   applied_factors, applied_interactions, priority_parsed>>

\* calculate_priority, lines 198-215
FinalScore ==
    /\ pc = "final_score"
    /\ priority_result' =
           [priority_score |-> ScoreOf(h),
            severity |-> severity,
            base_hazard |-> base_hazard,
            combined_hazard |-> h,
            applied_factors |-> applied_factors,
            applied_interactions |-> applied_interactions,
            confidence |-> _calculate_confidence(applied_factors, severity,
                                                 DescriptionOf(request_data)),
            returned |-> TRUE]
    /\ pc' = "to_dict"
    /\ UNCHANGED slaVars
    /\ UNCHANGED <<entry, calls, triage_output, request_data, severity, base_hazard, h,
                   applied_factors, applied_interactions, priority_parsed>>

\* TriagePipeline.run, lines 159-160
ToDict ==
    /\ pc = "to_dict"
    /\ priority_parsed' = PriorityResult_to_dict(priority_result)
    /\ pc' = "run_sla_mapper"
    /\ UNCHANGED slaVars
    /\ UNCHANGED <<entry, calls, triage_output, request_data, severity, base_hazard, h,
                   applied_factors, applied_interactions, priority_result>>

\* TriagePipeline.run, lines 219-224
RunSlaMapper ==
    /\ pc = "run_sla_mapper"
    /\ priority_score' = priority_parsed.priority_score
    /\ pc' = "calculate_sla"
    /\ UNCHANGED priVars
    /\ UNCHANGED <<entry, calls, args, agent, submission_time, sla, call, current,
                   hours_remaining, next_day, response_deadline,
                   resolution_deadline, sla_result, loop_passes, skip_iters>>

(***************************************************************************)
(* Inputs                                                                  *)
(***************************************************************************)
DefaultArgs == [business_hours_start |-> 9, business_hours_end |-> 17,
                business_days |-> [given |-> FALSE, list |-> {}]]
Days(list) == [given |-> TRUE, list |-> list]
\* the constructor arguments drawn: the default, other valid calendars, and
\* misconfigured ones (start >= end, a weekday list without a weekday of 0..6)
ArgsSet ==
    { DefaultArgs,
      [DefaultArgs EXCEPT !.business_days = Days({})],
      [DefaultArgs EXCEPT !.business_days = Days({5, 6})],
      [DefaultArgs EXCEPT !.business_hours_end = 16,
                          !.business_days = Days({0, 1, 2, 3, 4})],
      [business_hours_start |-> 0, business_hours_end |-> 23,
       business_days |-> Days({0, 1, 2, 3, 4, 5, 6})],
      [DefaultArgs EXCEPT !.business_hours_start = 17, !.business_hours_end = 9],
      [DefaultArgs EXCEPT !.business_hours_end = 9],
      [DefaultArgs EXCEPT !.business_days = Days({7})] }

\* a configuration the documentation of __init__ allows: hours within 0..23,
\* start before end, and (after the default is filled in) some weekday of 0..6
ValidConfig(a) ==
    /\ 0 <= a.business_hours_start
    /\ a.business_hours_start < a.business_hours_end
    /\ a.business_hours_end <= 23
    /\ BusinessDaysOrDefault(a.business_days) # {}
    /\ BusinessDaysOrDefault(a.business_days) \subseteq 0..6

TimesOfDay == {<<8, 0>>, <<9, 0>>, <<16, 30>>, <<17, 0>>, <<23, 30>>}
SubmissionTimes ==
    {DateTime(d, t[1], t[2]) : d \in 0..MaxSubmitDay, t \in TimesOfDay}
\* scores calculate_sla is called with directly, in tenths
DirectScores == {249, 250, 450, 599, 600, 799, 800, 983}

DefaultTriage == [severity |-> "MEDIUM", trade |-> "GENERAL", key_factors |-> {},
                  absent |-> {}, nulls |-> {}]
DefaultRequest ==
    [description |-> [phrases |-> {}, filler |-> 30],
     weather |-> [temperature |-> 70, absent |-> {}, nulls |-> {}],
     tenant |-> [is_elderly |-> FALSE, has_infant |-> FALSE,
                 has_medical_condition |-> FALSE, is_pregnant |-> FALSE,
                 age |-> 0, absent |-> {}, nulls |-> {}],
     property |-> [floor |-> 0, total_units |-> 1, absent |-> {}, nulls |-> {}],
     timing |-> [is_late_night |-> FALSE, is_holiday |-> FALSE,
                 is_after_hours |-> FALSE, is_weekend |-> FALSE,
                 absent |-> {}, nulls |-> {}],
     history |-> [recent_issues_count |-> 0, previous_repair_failed |-> FALSE,
                  absent |-> {}, nulls |-> {}],
     absent |-> {}, nulls |-> {}]

Severities == {"LOW", "MEDIUM", "HIGH", "EMERGENCY"}
LifeSafetyPhrases ==
    {"gas smell", "fire in the kitchen", "carbon monoxide detector beeping",
     "outlet is sparking", "sewage on the floor"}

\* requests that stack life-safety concepts
LifeSafetyInputs ==
    { <<[DefaultTriage EXCEPT !.severity = sev, !.key_factors = kf],
        [DefaultRequest EXCEPT !.description.phrases = ph,
                               !.tenant.is_elderly = eld,
                               !.timing.is_late_night = night]>> :
        sev \in Severities \cup {"high", "URGENT"},
        kf \in {{}, {"Smell of gas in kitchen"}},
        ph \in SUBSET LifeSafetyPhrases,
        eld \in BOOLEAN, night \in BOOLEAN }

\* requests around the temperature conditions
EnvironmentalInputs ==
    { <<[DefaultTriage EXCEPT !.severity = sev, !.trade = tr],
        [DefaultRequest EXCEPT !.description.phrases = ph,
                               !.weather.temperature = temp,
                               !.tenant.has_infant = inf]>> :
        sev \in Severities,
        tr \in {"PLUMBING", "HVAC", "ELECTRICAL", "GENERAL", "plumbing"},
        ph \in SUBSET {"no heat", "no ac"},
        temp \in {20, 35, 45, 70, 100},
        inf \in BOOLEAN }

\* requests around timing, history and the property
ContextInputs ==
    { <<[DefaultTriage EXCEPT !.severity = sev, !.trade = "PLUMBING"],
        [DefaultRequest EXCEPT !.description.phrases = ph,
                               !.timing = tm,
                               !.history.recent_issues_count = cnt,
                               !.history.previous_repair_failed = failed,
                               !.property = pr]>> :
        sev \in {"MEDIUM", "HIGH"},
        ph \in {{}, {"water everywhere", "no water"},
                {"third time this has happened"}, {"still not fixed"}},
        tm \in [is_late_night : BOOLEAN, is_holiday : BOOLEAN,
                is_after_hours : BOOLEAN, is_weekend : BOOLEAN,
                absent : {{}}, nulls : {{}}],
        cnt \in {0, 1, 3}, failed \in BOOLEAN,
        pr \in {[floor |-> 0, total_units |-> 1, absent |-> {}, nulls |-> {}],
                [floor |-> 3, total_units |-> 12, absent |-> {}, nulls |-> {}]} }

\* a request in which every optional field is given and differs from its
\* default
FullTriage == [DefaultTriage EXCEPT !.severity = "HIGH", !.trade = "PLUMBING",
                                    !.key_factors = {"Smoke in hallway"}]
FullRequest ==
    [DefaultRequest EXCEPT
        !.description.phrases = {"no heat", "leaky faucet"},
        !.weather.temperature = 20,
        !.tenant.is_elderly = TRUE, !.tenant.has_infant = TRUE,
        !.tenant.has_medical_condition = TRUE, !.tenant.is_pregnant = TRUE,
        !.tenant.age = 80,
        !.property.floor = 3, !.property.total_units = 12,
        !.timing.is_late_night = TRUE, !.timing.is_holiday = TRUE,
        !.timing.is_after_hours = TRUE, !.timing.is_weekend = TRUE,
        !.history.recent_issues_count = 3,
        !.history.previous_repair_failed = TRUE]
\* the same request with a tenant who is 80 but not flagged as elderly
AgedRequest == [FullRequest EXCEPT !.tenant.is_elderly = FALSE]

TriageKeys == {"severity", "trade", "key_factors"}
RequestKeys == {"request", "description", "context", "weather", "tenant",
                "property", "timing", "history"}
SectionKeys ==
    {<<"weather", "temperature">>,
     <<"tenant", "is_elderly">>, <<"tenant", "has_infant">>,
     <<"tenant", "has_medical_condition">>, <<"tenant", "is_pregnant">>,
     <<"tenant", "age">>,
     <<"property", "floor">>, <<"property", "total_units">>,
     <<"timing", "is_late_night">>, <<"timing", "is_holiday">>,
     <<"timing", "is_after_hours">>, <<"timing", "is_weekend">>,
     <<"history", "recent_issues_count">>,
     <<"history", "previous_repair_failed">>}
\* the key left out of the dict ("absent") or given the value None ("null")
Missing(d, key, how) ==
    IF how = "absent" THEN [d EXCEPT !.absent = @ \cup {key}]
    ELSE [d EXCEPT !.nulls = @ \cup {key}]
\* every section key of the request missing at once
RECURSIVE AllMissing(_, _, _)
AllMissing(r, keys, how) ==
    IF keys = {} THEN r
    ELSE LET sk == CHOOSE x \in keys : TRUE
         IN  AllMissing([r EXCEPT ![sk[1]] = Missing(@, sk[2], how)],
                        keys \ {sk}, how)

\* requests with optional fields missing: one field at a time, absent or
\* null, of a default, a full and an aged request; and all of them absent
PartialInputs ==
    LET bases == {<<DefaultTriage, DefaultRequest>>, <<FullTriage, FullRequest>>,
                  <<FullTriage, AgedRequest>>}
        hows == {"absent", "null"}
    IN  { <<Missing(b[1], k, how), b[2]>> :
             b \in bases, k \in TriageKeys, how \in hows }
        \cup { <<b[1], Missing(b[2], k, how)>> :
                   b \in bases, k \in RequestKeys, how \in hows }
        \cup { <<b[1], [b[2] EXCEPT ![sk[1]] = Missing(@, sk[2], how)]>> :
                   b \in bases, sk \in SectionKeys, how \in hows }
        \cup { <<[b[1] EXCEPT !.absent = TriageKeys],
                 AllMissing(b[2], SectionKeys, "absent")>> : b \in bases }
        \cup { <<[b[1] EXCEPT !.absent = TriageKeys],
                 [b[2] EXCEPT !.absent = {"request", "context"}]>> :
                   b \in bases }

\* requests whose concepts are named by the classifier's key factors only
KeyFactorInputs ==
    { <<[DefaultTriage EXCEPT !.key_factors = kf],
        [DefaultRequest EXCEPT !.description.phrases = ph,
                               !.weather.temperature = temp]>> :
        kf \in {{k} : k \in KeyFactorPhrases}
               \cup {{"Third time reported", "Still not fixed"}},
        ph \in {{}, {"leaky faucet"}},
        temp \in {20, 70, 100} }

\* requests about spreading and escalating damage, in single- and multi-unit
\* buildings
SpreadingInputs ==
    { <<[DefaultTriage EXCEPT !.severity = sev, !.key_factors = kf],
        [DefaultRequest EXCEPT !.description.phrases = ph,
                               !.property.total_units = units]>> :
        sev \in {"MEDIUM", "EMERGENCY"},
        kf \in {{}, {"Problem is worse today"}},
        ph \in SUBSET {"water everywhere", "it is getting worse"},
        units \in {1, 12} }

\* the two worked requests: an emergency gas smell reported late at night by
\* an elderly tenant; a medium request reported for the third time
ScenarioInputs ==
    { <<[DefaultTriage EXCEPT !.severity = "EMERGENCY"],
        [DefaultRequest EXCEPT !.description.phrases = {"gas smell"},
                               !.tenant.is_elderly = TRUE,
                               !.timing.is_late_night = TRUE]>>,
      <<DefaultTriage,
        [DefaultRequest EXCEPT !.description.phrases =
                                   {"third time this has happened"}]>> }

\* descriptions of 0, 19, 20, 100, 101 and 158 characters, with no factor,
\* two factors and an interaction, or three factors
LengthInputs ==
    { <<[DefaultTriage EXCEPT !.severity = sev],
        [DefaultRequest EXCEPT !.description = [phrases |-> ph, filler |-> n],
                               !.weather.temperature = 20,
                               !.tenant.is_elderly = eld]>> :
        sev \in {"LOW", "MEDIUM", "EMERGENCY"},
        ph \in {{}, {"no heat"},
                {"gas smell", "fire in the kitchen", "outlet is sparking"}},
        n \in {0, 19, 20, 100, 101},
        eld \in BOOLEAN }

\* the four severities in upper, lower and mixed case
SeveritySpellings ==
    {"LOW", "low", "Low", "MEDIUM", "medium", "Medium", "HIGH", "high", "hIgH",
     "EMERGENCY", "emergency", "Emergency"}
SpellingInputs ==
    { <<[DefaultTriage EXCEPT !.severity = sev, !.trade = trade],
        [DefaultRequest EXCEPT !.description.phrases = ph,
                               !.tenant.has_infant = inf,
                               !.timing.is_weekend = wk]>> :
        sev \in SeveritySpellings,
        trade \in {"GENERAL", "electrical"},
        ph \in {{}, {"water everywhere"}},
        inf \in BOOLEAN, wk \in BOOLEAN }

\* requests whose water- or electrical-named factor comes from the property
\* and essential-service groups
LateGroupInputs ==
    { <<[DefaultTriage EXCEPT !.severity = sev, !.trade = trade],
        [DefaultRequest EXCEPT !.description.phrases = ph,
                               !.property.floor = floor,
                               !.tenant.is_elderly = vul,
                               !.tenant.is_pregnant = vul]>> :
        sev \in {"MEDIUM", "EMERGENCY"},
        trade \in {"ELECTRICAL", "PLUMBING", "GENERAL"},
        ph \in SUBSET {"outlet is sparking", "no water"},
        floor \in {0, 3},
        vul \in BOOLEAN }

PriorityInputs == SpellingInputs \cup LateGroupInputs \cup
                  LifeSafetyInputs \cup EnvironmentalInputs \cup ContextInputs
                  \cup PartialInputs \cup KeyFactorInputs \cup SpreadingInputs
                  \cup ScenarioInputs \cup LengthInputs
\* Tuesday 23:30
PipelineTimes == {DateTime(1, 23, 30)}

InitCommon ==
    /\ pc = "construct"
    /\ calls = 0
    /\ agent = NoAgent
    /\ sla = NoSla
    /\ call = "none"
    /\ current = NoTime
    /\ hours_remaining = 0
    /\ next_day = NoTime
    /\ response_deadline = NoTime
    /\ resolution_deadline = NoTime
    /\ sla_result = NoResult
    /\ loop_passes = 0
    /\ skip_iters = 0
    /\ severity = ""
    /\ base_hazard = NoDec
    /\ h = NoDec
    /\ applied_factors = <<>>
    /\ applied_interactions = <<>>
    /\ priority_result = NoPriorityResult
    /\ priority_parsed = NoParsed

\* lambda_handler / callers of the mapper: calculate_sla with a given score
InitDirect ==
    /\ entry = "direct"
    /\ args \in ArgsSet
    /\ priority_score \in DirectScores
    /\ submission_time \in SubmissionTimes
    /\ triage_output = DefaultTriage
    /\ request_data = DefaultRequest

\* TriagePipeline: SLAMapperAgent() with its defaults, score from the engine
InitPipeline ==
    /\ entry = "pipeline"
    /\ args = DefaultArgs
    /\ priority_score = -1
    /\ submission_time \in PipelineTimes
    /\ \E inp \in PriorityInputs :
           /\ triage_output = inp[1]
           /\ request_data = inp[2]

Init == InitCommon /\ (InitDirect \/ InitPipeline)

Next ==
    \/ Construct
    \/ GetBaseHazard
    \/ ApplyLifeSafety
    \/ ApplyActiveDamage
    \/ ApplyVulnerability
    \/ ApplyEnvironmental
    \/ ApplyTiming
    \/ ApplyRecurrence
    \/ ApplyProperty
    \/ ApplyEssentialService
    \/ ApplyInteractions
    \/ FinalScore
    \/ ToDict
    \/ RunSlaMapper
    \/ CalculateSla
    \/ WalkerStart
    \/ MoveToNextBusinessPeriod
    \/ SkipNonBusinessDay
    \/ WalkerLoop
    \/ SlaReturn

Spec == Init /\ [][Next]_vars

(***************************************************************************)
(* The agents re-used: a caller holds one SLAMapperAgent and one           *)
(* PriorityCalculatorAgent and calls them again once a call has ended.     *)
(* The locals of the ended call are left as they are: the next call sees   *)
(* only what its own lines assign.                                         *)
(***************************************************************************)
\* calls served by one pair of agents
MaxCalls == 2
Ended == pc \in {"done", "AttributeError", "TypeError"}
ReuseArgs == {DefaultArgs,
              [DefaultArgs EXCEPT !.business_hours_end = 16,
                                  !.business_days = Days({0, 1, 2, 3, 4})]}
ReuseScores == {450, 650, 983}
ReuseTimes == {DateTime(0, 8, 0), DateTime(4, 16, 30), DateTime(5, 9, 0)}
ReuseInputs ==
    ScenarioInputs
    \cup {<<FullTriage, FullRequest>>,
          <<DefaultTriage, [DefaultRequest EXCEPT !.weather.nulls = {"temperature"}]>>}
InitReuse ==
    /\ InitCommon
    /\ args \in ReuseArgs
    /\ \/ /\ entry = "direct"
          /\ priority_score \in ReuseScores
          /\ submission_time \in ReuseTimes
          /\ triage_output = DefaultTriage
          /\ request_data = DefaultRequest
       \/ /\ entry = "pipeline"
          /\ priority_score = -1
          /\ submission_time \in PipelineTimes
          /\ \E inp \in ReuseInputs :
                 /\ triage_output = inp[1]
                 /\ request_data = inp[2]
\* the caller's next call, on the agents constructed before
NextCall ==
    /\ Ended
    /\ calls + 1 < MaxCalls
    /\ calls' = calls + 1
    /\ \/ /\ entry' = "direct"
          /\ priority_score' \in ReuseScores
          /\ submission_time' \in ReuseTimes
          /\ pc' = "calculate_sla"
          /\ UNCHANGED <<triage_output, request_data>>
       \/ /\ entry' = "pipeline"
          /\ submission_time' \in PipelineTimes
          /\ \E inp \in ReuseInputs :
                 /\ triage_output' = inp[1]
                 /\ request_data' = inp[2]
          /\ pc' = "calculate_priority"
          /\ UNCHANGED priority_score
    /\ UNCHANGED <<args, agent, sla, call, current, hours_remaining, next_day,
                   response_deadline, resolution_deadline, sla_result,
                   loop_passes, skip_iters, severity, base_hazard, h,
                   applied_factors, applied_interactions, priority_result,
                   priority_parsed>>
NextReuse == Next \/ NextCall
ReuseSpec == InitReuse /\ [][NextReuse]_vars

\* The termination specification: valid calendars only and a thinner choice of
\* requests; calculate_sla is sequential code, so each of its steps is taken
\* once it is enabled.
FairPriorityInputs ==
    { <<[DefaultTriage EXCEPT !.severity = sev],
        [DefaultRequest EXCEPT !.description.phrases = ph]>> :
        sev \in Severities, ph \in {{}, {"gas smell"}} }
InitValid ==
    /\ InitCommon
    /\ \/ InitDirect
       \/ /\ InitPipeline
          /\ <<triage_output, request_data>> \in FairPriorityInputs
    /\ ValidConfig(args)
\* the steps of calculate_sla; a call that has started is run to its end
SlaStep ==
    \/ CalculateSla
    \/ WalkerStart
    \/ MoveToNextBusinessPeriod
    \/ SkipNonBusinessDay
    \/ WalkerLoop
    \/ SlaReturn
FairSpec == InitValid /\ [][Next]_vars /\ WF_vars(SlaStep)

(***************************************************************************)
(* Properties of the SLA mapper                                            *)
(***************************************************************************)
MinuteOfDay(dt) == dt % 1440
Returned == pc = "done"
BusinessTierReturned == pc = "done" /\ sla_result.business_hours_only
Deadlines == {sla_result.response_deadline, sla_result.resolution_deadline}

\* the business time (minutes inside the daily window on business weekdays)
\* between two instants t1 <= t2
DayOverlap(ag, d, t1, t2) ==
    IF (d % 7) \in ag.business_days
    THEN LET open == d * 1440 + ag.business_hours_start * 60
             close == d * 1440 + ag.business_hours_end * 60
             lo == IF open > t1 THEN open ELSE t1
             hi == IF close < t2 THEN close ELSE t2
         IN  IF hi > lo THEN hi - lo ELSE 0
    ELSE 0
RECURSIVE BusinessMinutesFrom(_, _, _, _)
BusinessMinutesFrom(ag, d, t1, t2) ==
    IF d > DayOf(t2) THEN 0
    ELSE DayOverlap(ag, d, t1, t2) + BusinessMinutesFrom(ag, d + 1, t1, t2)
BusinessMinutesBetween(ag, t1, t2) == BusinessMinutesFrom(ag, DayOf(t1), t1, t2)

\* C1 (as stated): for a business-hours-only tier both deadlines fall on a
\* business weekday at a time of day t with start <= t < end, the end of the
\* business day excluded.
C1_DeadlinesInHalfOpenWindow ==
    BusinessTierReturned =>
        \A dl \in Deadlines :
            /\ weekday(dl) \in agent.business_days
            /\ agent.business_hours_start * 60 <= MinuteOfDay(dl)
            /\ MinuteOfDay(dl) < agent.business_hours_end * 60

\* C1 (amended): for a business-hours-only tier both deadlines fall on a
\* business weekday at a time of day t with start < t <= end: the close of the
\* business day is a possible deadline, its opening is not.
C1_DeadlinesInWindowClosedAtEnd ==
    BusinessTierReturned =>
        \A dl \in Deadlines :
            /\ weekday(dl) \in agent.business_days
            /\ agent.business_hours_start * 60 < MinuteOfDay(dl)
            /\ MinuteOfDay(dl) <= agent.business_hours_end * 60

\* a business-hours-only result whose response deadline lies strictly inside
\* the window and whose resolution deadline lies at its close
C1_Witness ==
    /\ BusinessTierReturned
    /\ MinuteOfDay(sla_result.response_deadline) < agent.business_hours_end * 60
    /\ MinuteOfDay(sla_result.resolution_deadline) = agent.business_hours_end * 60

\* C2: for a business-hours-only tier with N response (resolution) hours, the
\* business time between submission_time and the returned deadline is exactly
\* N hours; the hours left in the day of submission are counted.
C2_ExactlyNBusinessHours ==
    BusinessTierReturned =>
        /\ BusinessMinutesBetween(agent, submission_time,
                                  sla_result.response_deadline)
           = sla_result.response_hours * 60
        /\ BusinessMinutesBetween(agent, submission_time,
                                  sla_result.resolution_deadline)
           = sla_result.resolution_hours * 60

\* Scenario 4: score 45.0 given directly, Friday 16:30, default calendar
Scenario4 ==
    /\ entry = "direct"
    /\ args = DefaultArgs
    /\ priority_score = 450
    /\ submission_time = DateTime(4, 16, 30)

RejectedByClaim(a) ==
    \/ a.business_hours_start >= a.business_hours_end
    \/ (a.business_days.given /\ a.business_days.list = {})

\* C4: an invalid business-hours configuration (start >= end, or an empty
\* weekday set) is rejected when the mapper is constructed: no mapper is ever
\* constructed from one.
C4_InvalidConfigRejected ==
    agent.constructed => ~RejectedByClaim(args)

\* C5: for every valid configuration the walker terminates: a pass of its
\* loop that does not return strictly reduces the remaining hours, and
\* calculate_sla eventually returns an SLAResult.
C5_WalkerTerminates ==
    /\ [][(pc = "loop" /\ pc' = "move") => hours_remaining' < hours_remaining]_vars
    /\ (pc = "calculate_sla") ~> (pc = "done" /\ sla_result # NoResult)

\* the walker has carried hours over at least two business days and returned
C5_Witness ==
    /\ BusinessTierReturned
    /\ loop_passes >= 3
    /\ ValidConfig(args)

PriorityReturned == priority_result.returned

\* base * prod(hazard_ratio) * prod(interaction_ratio), over the two lists
RECURSIVE TimesFactors(_, _)
TimesFactors(x, fs) ==
    IF fs = <<>> THEN x
    ELSE TimesFactors(DMul(x, Head(fs).hazard_ratio), Tail(fs))
RECURSIVE TimesInteractions(_, _)
TimesInteractions(x, is) ==
    IF is = <<>> THEN x
    ELSE TimesInteractions(DMul(x, Head(is).interaction_ratio), Tail(is))

\* C7: applied_factors contains at most one factor of category ENVIRONMENTAL,
\* even when several temperature conditions hold at once.
C7_AtMostOneEnvironmental ==
    PriorityReturned =>
        CountCategory(priority_result.applied_factors, "ENVIRONMENTAL") <= 1

\* C8: the score reported by to_dict and passed to the SLA mapper (rounded to
\* one decimal) is strictly greater than 0 and strictly less than 100.
C8_ReportedScoreInsideOpenInterval ==
    /\ priority_parsed # NoParsed =>
           (0 < priority_parsed.priority_score
            /\ priority_parsed.priority_score < 1000)
    /\ (entry = "pipeline" /\ pc = "calculate_sla") =>
           (0 < priority_score /\ priority_score < 1000)

\* C9: the unrounded priority_score equals 100*h/(h+1) for h =
\* combined_hazard and lies strictly inside the open interval (0,100).
C9_UnroundedScoreInsideOpenInterval ==
    PriorityReturned =>
        LET c == priority_result.combined_hazard
            s == priority_result.priority_score
        IN  /\ FEq(s, Frac(BMulSmall(c.m, 100), BAdd(c.m, BShift10(<<1>>, c.e))))
            /\ FLess(Frac(<<>>, <<1>>), s)
            /\ FLess(s, Frac(<<100>>, <<1>>))

\* a result whose rounded score is 100.0 while the unrounded one is below 100
C9_Witness ==
    /\ PriorityReturned
    /\ priority_parsed.priority_score = 1000

\* C10: combined_hazard equals base_hazard times the hazard_ratio of every
\* applied factor and the interaction_ratio of every applied interaction;
\* every listed ratio is greater than 1, so combined_hazard >= base_hazard.
C10_CombinedHazardIsProduct ==
    PriorityReturned =>
        LET r == priority_result
        IN  /\ DEq(r.combined_hazard,
                   TimesInteractions(TimesFactors(r.base_hazard, r.applied_factors),
                                     r.applied_interactions))
            /\ \A i \in 1..Len(r.applied_factors) :
                   r.applied_factors[i].hazard_ratio > 100
            /\ \A i \in 1..Len(r.applied_interactions) :
                   r.applied_interactions[i].interaction_ratio > 100
            /\ DLeq(r.base_hazard, r.combined_hazard)

\* a result with main effects and an interaction applied
C10_Witness ==
    /\ PriorityReturned
    /\ Len(priority_result.applied_factors) >= 3
    /\ Len(priority_result.applied_interactions) >= 1

(***************************************************************************)
(* Missing fields                                                          *)
(***************************************************************************)
Raised == pc \in {"AttributeError", "TypeError"}

\* the dict with every missing key (absent or None) given the value `defaults`
\* has for it
RECURSIVE FillKeys(_, _, _)
FillKeys(d, defaults, keys) ==
    IF keys = {} THEN [d EXCEPT !.absent = {}, !.nulls = {}]
    ELSE LET k == CHOOSE x \in keys : TRUE
         IN  FillKeys([d EXCEPT ![k] = defaults[k]], defaults, keys \ {k})
Fill(d, defaults) ==
    FillKeys(d, defaults, (d.absent \cup d.nulls) \cap DOMAIN defaults)
\* the request with the documented defaults written out: description "",
\* temperature 70, age 0, counts 0, total_units 1, flags false
FillRequest(r) ==
    LET topMissing == r.absent \cup r.nulls
        sec(key) == IF "context" \in topMissing \/ key \in topMissing
                    THEN DefaultRequest[key]
                    ELSE Fill(r[key], DefaultRequest[key])
    IN  [description |-> IF "request" \in topMissing
                            \/ "description" \in topMissing
                         THEN EmptyDescription ELSE r.description,
         weather |-> sec("weather"), tenant |-> sec("tenant"),
         property |-> sec("property"), timing |-> sec("timing"),
         history |-> sec("history"), absent |-> {}, nulls |-> {}]
SomeFieldMissing ==
    \/ triage_output.absent \cup triage_output.nulls # {}
    \/ request_data.absent \cup request_data.nulls # {}
    \/ \E key \in {"weather", "tenant", "property", "timing", "history"} :
           request_data[key].absent \cup request_data[key].nulls # {}

\* C11: calculate_priority never raises; with any optional field missing
\* (key absent or value None) it returns the PriorityResult of the same
\* request with the defaults written out, and a severity that is missing or
\* not one of the four labels is scored with base hazard 0.429.
C11_NeverRaisesDefaultsApplied ==
    /\ ~Raised
    /\ PriorityReturned =>
          /\ priority_result =
                calculate_priority(Fill(triage_output, DefaultTriage),
                                   FillRequest(request_data))
          /\ priority_result.severity \notin Severities =>
                DEq(priority_result.base_hazard, Thousandths(429))

(***************************************************************************)
(* Monotonicity                                                            *)
(***************************************************************************)
FLeq(x, y) == FLess(x, y) \/ FEq(x, y)
TenantFlags == {"is_elderly", "has_infant", "has_medical_condition",
                "is_pregnant"}
TimingFlags == {"is_late_night", "is_holiday", "is_after_hours", "is_weekend"}
\* the requests that differ from r in one qualifying condition that holds in
\* r and not in them: one flag false instead of true, a lower
\* recent_issues_count, a single unit instead of several, one concept less in
\* the text
OneConditionLess(r) ==
    { [r EXCEPT !.tenant[f] = FALSE] : f \in {g \in TenantFlags : r.tenant[g]} }
    \cup { [r EXCEPT !.timing[f] = FALSE] :
             f \in {g \in TimingFlags : r.timing[g]} }
    \cup (IF r.history.previous_repair_failed
          THEN {[r EXCEPT !.history.previous_repair_failed = FALSE]} ELSE {})
    \cup { [r EXCEPT !.history.recent_issues_count = c] :
             c \in 0..(r.history.recent_issues_count - 1) }
    \cup (IF r.property.total_units > 1
          THEN {[r EXCEPT !.property.total_units = 1]} ELSE {})
    \cup { [r EXCEPT !.description.phrases = @ \ {ph}] :
             ph \in r.description.phrases }
\* calculate_priority has just returned for a request given in full
ReturnedInFull == pc = "to_dict" /\ ~SomeFieldMissing

\* C12: monotonicity.  The combined_hazard and the priority_score returned
\* are at least those calculate_priority gives for every request that is
\* identical except that one qualifying condition of it does not hold
\* (or one key-factor phrase is not given).
C12_OneMoreConditionNeverLowers ==
    ReturnedInFull =>
        \A less \in
              { calculate_priority(triage_output, weaker) :
                    weaker \in OneConditionLess(request_data) }
              \cup { calculate_priority(
                         [triage_output EXCEPT !.key_factors = @ \ {kf}],
                         request_data) : kf \in triage_output.key_factors } :
            /\ DLeq(less.combined_hazard, priority_result.combined_hazard)
            /\ FLeq(less.priority_score, priority_result.priority_score)
\* a late-night holiday request: without the late-night flag the holiday
\* factor applies, and the hazard is strictly lower
C12_Witness ==
    /\ ReturnedInFull
    /\ request_data.timing.is_late_night /\ request_data.timing.is_holiday
    /\ DLess(calculate_priority(triage_output,
                 [request_data EXCEPT !.timing.is_late_night = FALSE])
                     .combined_hazard,
             priority_result.combined_hazard)

(***************************************************************************)
(* One timing factor, one recurrence factor                                *)
(***************************************************************************)
FactorsOfCategory(fs, category) ==
    SelectSeq(fs, LAMBDA f : f.category = category)
\* the timing flags in their order of precedence, with their hazard ratios
TimingOrder == << <<"is_late_night", 135>>, <<"is_holiday", 130>>,
                  <<"is_after_hours", 125>>, <<"is_weekend", 115>> >>
TimingFlagsTrue ==
    {i \in 1..4 : Truthy(Section(request_data, "timing"), TimingOrder[i][1])}
First(S) == CHOOSE i \in S : \A j \in S : i <= j

\* C13: the result lists exactly one TIMING factor when a timing flag is true,
\* that of the first true flag in the order late_night (1.35), holiday (1.30),
\* after_hours (1.25), weekend (1.15), and none when no flag is true.
C13_ExactlyOneTimingFactor ==
    PriorityReturned =>
        LET tf == FactorsOfCategory(priority_result.applied_factors, "TIMING")
        IN  IF TimingFlagsTrue = {} THEN tf = <<>>
            ELSE /\ Len(tf) = 1
                 /\ tf[1].hazard_ratio = TimingOrder[First(TimingFlagsTrue)][2]
\* holiday, after-hours and weekend all true, late night not
C13_Witness ==
    /\ PriorityReturned
    /\ TimingFlagsTrue = {2, 3, 4}
    /\ Len(FactorsOfCategory(priority_result.applied_factors, "TIMING")) = 1

Catalogue ==
    {"gas_leak", "fire_smoke", "carbon_monoxide", "electrical_shock", "sewage",
     "water_spreading", "ceiling_drip", "getting_worse", "evacuated",
     "no_heat", "no_ac", "no_water", "no_power", "no_toilet", "locked_out",
     "structural", "third_time", "repair_failed"}
\* the trigger words the source gives a concept (second argument of its
\* _check_key_factors call); none for the concepts it never looks up in
\* key_factors
TriggerWords(pattern_key) ==
    CASE pattern_key = "gas_leak" -> {"gas"}
      [] pattern_key = "fire_smoke" -> {"fire", "smoke", "flames"}
      [] pattern_key = "carbon_monoxide" -> {"carbon monoxide", "co alarm"}
      [] pattern_key = "electrical_shock" ->
           {"spark", "shock", "arcing", "exposed wire"}
      [] pattern_key = "sewage" -> {"sewage"}
      [] pattern_key = "water_spreading" ->
           {"spreading", "flooding", "water everywhere"}
      [] pattern_key = "ceiling_drip" -> {"ceiling", "dripping"}
      [] pattern_key = "getting_worse" -> {"worse", "spreading", "can't stop"}
      [] pattern_key = "evacuated" -> {"evacuated", "evacuation"}
      [] OTHER -> {}
\* the main-effect factor of a concept
ConceptFactor(pattern_key) ==
    CASE pattern_key = "gas_leak" -> "Gas leak/smell"
      [] pattern_key = "fire_smoke" -> "Fire/flames/smoke"
      [] pattern_key = "carbon_monoxide" -> "Carbon monoxide alarm"
      [] pattern_key = "electrical_shock" -> "Electrical shock hazard"
      [] pattern_key = "sewage" -> "Sewage in living area"
      [] pattern_key = "water_spreading" -> "Water actively spreading"
      [] pattern_key = "ceiling_drip" -> "Ceiling dripping"
      [] pattern_key = "getting_worse" -> "Situation escalating"
      [] pattern_key = "evacuated" -> "Tenant evacuated"
      [] pattern_key = "no_heat" -> "No heat + extreme cold"
      [] pattern_key = "no_ac" -> "No AC + extreme heat"
      [] pattern_key = "no_water" -> "No running water"
      [] pattern_key = "no_power" -> "No electricity"
      [] pattern_key = "no_toilet" -> "No toilet function"
      [] pattern_key = "locked_out" -> "Cannot access unit"
      [] pattern_key = "structural" -> "Structural concern"
      [] pattern_key = "third_time" -> "Third+ occurrence"
      [] pattern_key = "repair_failed" -> "Previous repair failed"
FactorApplied(name) ==
    \E i \in 1..Len(priority_result.applied_factors) :
        priority_result.applied_factors[i].name = name
\* a key-factor phrase names the concept: it contains one of the concept's
\* trigger words or, for a concept the source gives no trigger words, one of
\* the concept's own patterns matches it
NamedByKeyFactor(pattern_key) ==
    LET key_factors == get(triage_output, "key_factors", {})
    IN  IF TriggerWords(pattern_key) # {}
        THEN _check_key_factors(key_factors, TriggerWords(pattern_key))
        ELSE \E kf \in key_factors :
                 kf \in KeyFactorPhrasesMatching(pattern_key)
\* what else the concept's factor needs: the temperature for no_heat and
\* no_ac, no third occurrence for repair_failed
FactorDue(pattern_key) ==
    LET temp == get(Section(request_data, "weather"), "temperature", 70)
    IN  CASE pattern_key = "no_heat" -> temp < 40
          [] pattern_key = "no_ac" -> temp > 95
          [] pattern_key = "repair_failed" ->
               ~FactorApplied("Third+ occurrence")
          [] OTHER -> TRUE

\* C15: a concept of the catalogue that a key-factor phrase names counts as
\* present even when no pattern matches the description: its main-effect
\* factor is applied, for every concept of the catalogue.
C15_KeyFactorNamesEveryConcept ==
    PriorityReturned =>
        \A pattern_key \in Catalogue :
            (NamedByKeyFactor(pattern_key) /\ FactorDue(pattern_key)) =>
                FactorApplied(ConceptFactor(pattern_key))

InteractionApplied(name) ==
    \E i \in 1..Len(priority_result.applied_interactions) :
        priority_result.applied_interactions[i].name = name

\* C16: with total_units > 1, the Multi-unit x Spreading interaction is
\* applied whenever the getting-worse factor (1.6) or the water-spreading
\* factor (2.2) is, the getting-worse factor alone included.
C16_MultiUnitSpreadingOnEither ==
    (/\ PriorityReturned
     /\ get(Section(request_data, "property"), "total_units", 1) > 1
     /\ \/ FactorApplied("Situation escalating")
        \/ FactorApplied("Water actively spreading"))
    => InteractionApplied("Multi-unit x Spreading")

(***************************************************************************)
(* Scenarios of the engine                                                 *)
(***************************************************************************)
NamesAndRatios(fs) ==
    [i \in 1..Len(fs) |-> <<fs[i].name, fs[i].hazard_ratio>>]
InteractionNamesAndRatios(is) ==
    [i \in 1..Len(is) |-> <<is[i].name, is[i].interaction_ratio>>]
Scenario1 ==
    /\ PriorityReturned
    /\ triage_output = [DefaultTriage EXCEPT !.severity = "EMERGENCY"]
    /\ request_data = [DefaultRequest EXCEPT
                          !.description.phrases = {"gas smell"},
                          !.tenant.is_elderly = TRUE,
                          !.timing.is_late_night = TRUE]
\* C17: scenario 1 (EMERGENCY, "gas smell", elderly tenant, late night): the
\* factors are exactly gas 4.0, elderly 1.5, late night 1.35, the only
\* interaction is Late Night x Emergency 1.25, combined_hazard is
\* 5.667 * 4.0 * 1.5 * 1.35 * 1.25 = 57.378375 and the score rounds to 98.3.
C17_Scenario1 ==
    Scenario1 =>
        /\ NamesAndRatios(priority_result.applied_factors) =
              << <<"Gas leak/smell", 400>>, <<"Elderly tenant", 150>>,
                 <<"Late night", 135>> >>
        /\ InteractionNamesAndRatios(priority_result.applied_interactions) =
              << <<"Late Night x Emergency", 125>> >>
        /\ DEq(priority_result.combined_hazard, Dec(57378375, 6))
        /\ RoundTenths(priority_result.priority_score) = 983
        /\ pc \notin {"final_score", "to_dict"} =>
              priority_parsed.priority_score = 983
C17_Witness == Scenario1 /\ pc = "run_sla_mapper"

Scenario2 ==
    /\ PriorityReturned
    /\ triage_output = DefaultTriage
    /\ request_data = [DefaultRequest EXCEPT
                          !.description.phrases =
                              {"third time this has happened"}]
\* C18: scenario 2 (MEDIUM, "third time this has happened", nothing else):
\* the only factor is the third-occurrence factor 2.0, there is no
\* interaction, combined_hazard is 0.429 * 2.0 = 0.858 and the score rounds
\* to 46.2.
C18_Scenario2 ==
    Scenario2 =>
        /\ NamesAndRatios(priority_result.applied_factors) =
              << <<"Third+ occurrence", 200>> >>
        /\ priority_result.applied_interactions = <<>>
        /\ DEq(priority_result.combined_hazard, Dec(858, 3))
        /\ RoundTenths(priority_result.priority_score) = 462
C18_Witness == Scenario2 /\ pc = "run_sla_mapper"

(***************************************************************************)
(* The tier table and the 24/7 tier                                        *)
(***************************************************************************)
RowChosen == sla # NoSla
\* C19: every score falls in exactly one row of the tier table, by the
\* thresholds 80, 60 and 25 (scores in tenths), and tier, hours,
\* business_hours_only and vendor_tier of the SLAResult all come from that
\* row, whatever the severity label of the classification.
C19_TierTableByScore ==
    /\ RowChosen =>
          /\ priority_score >= 800 =>
                sla = [tier |-> "EMERGENCY", response_hours |-> 4,
                       resolution_hours |-> 24, business_hours_only |-> FALSE,
                       vendor_tier |-> "Premium only"]
          /\ (600 <= priority_score /\ priority_score < 800) =>
                sla = [tier |-> "HIGH", response_hours |-> 24,
                       resolution_hours |-> 48, business_hours_only |-> TRUE,
                       vendor_tier |-> "Preferred + Premium"]
          /\ (250 <= priority_score /\ priority_score < 600) =>
                sla = [tier |-> "MEDIUM", response_hours |-> 48,
                       resolution_hours |-> 120, business_hours_only |-> TRUE,
                       vendor_tier |-> "All qualified"]
          /\ priority_score < 250 =>
                sla = [tier |-> "LOW", response_hours |-> 72,
                       resolution_hours |-> 168, business_hours_only |-> TRUE,
                       vendor_tier |-> "Any available"]
    /\ Returned =>
          /\ sla_result.tier = sla.tier
          /\ sla_result.response_hours = sla.response_hours
          /\ sla_result.resolution_hours = sla.resolution_hours
          /\ sla_result.business_hours_only = sla.business_hours_only
          /\ sla_result.vendor_tier = sla.vendor_tier
\* a score on the threshold 60.0, in the HIGH row
C19_Witness ==
    /\ Returned
    /\ priority_score = 600
    /\ sla_result.tier = "HIGH"

\* C20: for a score >= 80 the deadlines are submission_time + 4 hours and
\* submission_time + 24 hours exactly, at any weekday and hour, and
\* business_hours_only is false.
C20_EmergencyPlainArithmetic ==
    (Returned /\ priority_score >= 800) =>
        /\ sla_result.response_deadline = submission_time + 4 * 60
        /\ sla_result.resolution_deadline = submission_time + 24 * 60
        /\ ~sla_result.business_hours_only
\* Tuesday 23:30
C20_Witness ==
    /\ Returned
    /\ priority_score >= 800
    /\ submission_time = DateTime(1, 23, 30)
    /\ sla_result.response_deadline = DateTime(2, 3, 30)

(***************************************************************************)
(* Order of the two deadlines                                              *)
(***************************************************************************)
\* C21: in every SLAResult of a valid configuration response_deadline is not
\* after resolution_deadline; each of the two walker calls starts from
\* submission_time, the second not from the first one's result.
C21_ResponseNotAfterResolution ==
    /\ []((Returned /\ ValidConfig(args)) =>
            sla_result.response_deadline <= sla_result.resolution_deadline)
    /\ [][pc = "walker_start" => current' = submission_time]_vars
\* a weekend-only calendar, business-hours tier
C21_Witness ==
    /\ BusinessTierReturned
    /\ agent.business_days = {5, 6}
    /\ sla_result.response_deadline < sla_result.resolution_deadline

(***************************************************************************)
(* Determinism, no shared mutable state                                    *)
(***************************************************************************)
InSla == pc \in {"calculate_sla", "walker_start", "move", "skip", "loop",
                 "sla_return"}
C23_ConfidenceFormula ==
    pc = "to_dict" =>
        LET n == Len(priority_result.applied_factors)
            len == DescriptionLen(DescriptionOf(request_data))
            sum == 85
                   + (IF n >= 3 THEN 5 ELSE IF n = 0 THEN -10 ELSE 0)
                   + (IF priority_result.severity \in {"EMERGENCY", "LOW"}
                      THEN 5 ELSE 0)
                   + (IF len > 100 THEN 5 ELSE IF len < 20 THEN -10 ELSE 0)
        IN  priority_result.confidence =
                IF sum > 100 THEN 100 ELSE IF sum < 50 THEN 50 ELSE sum
\* two factors and an interaction, at the 100-character boundary
C23_Witness ==
    /\ pc = "to_dict"
    /\ Len(priority_result.applied_factors) = 2
    /\ Len(priority_result.applied_interactions) >= 1
    /\ DescriptionLen(DescriptionOf(request_data)) = 109
    /\ priority_result.confidence = 90

(***************************************************************************)
(* Base hazard                                                             *)
(***************************************************************************)
SeverityGiven == get(triage_output, "severity", "MEDIUM")
\* C24: for a severity given as LOW, MEDIUM, HIGH or EMERGENCY in any letter
\* case, base_hazard is 0.111, 0.429, 1.500, 5.667, whatever the rest of the
\* input is.
C24_BaseHazardTable ==
    pc = "to_dict" =>
        /\ SeverityGiven \in {"LOW", "low", "Low"} =>
               priority_result.base_hazard = Thousandths(111)
        /\ SeverityGiven \in {"MEDIUM", "medium", "Medium"} =>
               priority_result.base_hazard = Thousandths(429)
        /\ SeverityGiven \in {"HIGH", "high", "hIgH"} =>
               priority_result.base_hazard = Thousandths(1500)
        /\ SeverityGiven \in {"EMERGENCY", "emergency", "Emergency"} =>
               priority_result.base_hazard = Thousandths(5667)
\* a lower-case emergency with factors applied
C24_Witness ==
    /\ pc = "to_dict"
    /\ SeverityGiven = "emergency"
    /\ priority_result.base_hazard = Thousandths(5667)
    /\ Len(priority_result.applied_factors) >= 2

(***************************************************************************)
(* Interactions on the final factor list                                   *)
(***************************************************************************)
FinalCategories ==
    {priority_result.applied_factors[i].category :
        i \in 1..Len(priority_result.applied_factors)}
InteractionRatios ==
    << <<"Vulnerability x Environmental", 150>>, <<"Water x Electrical", 160>>,
       <<"Recurrence x High Severity", 140>>, <<"Multi-unit x Spreading", 150>>,
       <<"Late Night x Emergency", 125>>, <<"Multiple Vulnerabilities", 130>> >>
\* the trigger of each interaction, read on the factors returned
Trigger(name) ==
    CASE name = "Vulnerability x Environmental" ->
           {"VULNERABILITY", "ENVIRONMENTAL"} \subseteq FinalCategories
      [] name = "Water x Electrical" ->
           /\ \/ FactorApplied("Water actively spreading")
              \/ FactorApplied("Upper floor water leak")
              \/ FactorApplied("No running water")
           /\ \/ Upper(get(triage_output, "trade", "GENERAL")) = "ELECTRICAL"
              \/ FactorApplied("Electrical shock hazard")
      [] name = "Recurrence x High Severity" ->
           /\ "RECURRENCE" \in FinalCategories
           /\ priority_result.severity \in {"HIGH", "EMERGENCY"}
      [] name = "Multi-unit x Spreading" ->
           /\ FactorApplied("Multi-unit building")
           /\ FactorApplied("Water actively spreading")
      [] name = "Late Night x Emergency" ->
           /\ FactorApplied("Late night")
           /\ priority_result.severity = "EMERGENCY"
      [] name = "Multiple Vulnerabilities" ->
           Len(FactorsOfCategory(priority_result.applied_factors,
                                 "VULNERABILITY")) >= 2
Rank(label) ==
    CASE label = "LOW" -> 0 [] label = "MEDIUM" -> 1 [] label = "HIGH" -> 2
      [] label = "EMERGENCY" -> 3
NothingApplied ==
    /\ priority_result.applied_factors = <<>>
    /\ priority_result.applied_interactions = <<>>
\* C26: in a pipeline run with a recognized severity, the tier of the SLA is
\* never below the severity label; with no factor applied the scores handed
\* on are 10.0, 30.0, 60.0 and 85.0, the HIGH one being 60 exactly.
C26_TierNotBelowSeverity ==
    /\ (pc = "done" /\ entry = "pipeline"
            /\ priority_result.severity \in Severities) =>
           Rank(sla_result.tier) >= Rank(priority_result.severity)
    /\ (pc = "run_sla_mapper" /\ NothingApplied
            /\ priority_result.severity \in Severities) =>
           /\ priority_parsed.priority_score =
                  CASE priority_result.severity = "LOW" -> 100
                    [] priority_result.severity = "MEDIUM" -> 300
                    [] priority_result.severity = "HIGH" -> 600
                    [] priority_result.severity = "EMERGENCY" -> 850
           /\ priority_result.severity = "HIGH" =>
                  FEq(priority_result.priority_score, Frac(Big(60), Big(1)))
\* a bare HIGH request lands in the HIGH tier, on the threshold
C26_Witness ==
    /\ pc = "done"
    /\ entry = "pipeline"
    /\ priority_result.severity = "HIGH"
    /\ NothingApplied
    /\ priority_score = 600
    /\ sla_result.tier = "HIGH"

(***************************************************************************)
(* Deadlines and the time of day of the submission                         *)
(***************************************************************************)
\* instants of the calendar day of t: each hour, at minutes 0, 1, 30 and 59
SameDayTimes(t) ==
    {DateTime(DayOf(t), hh, mm) : hh \in 0..23, mm \in {0, 1, 30, 59}}
BeforeStartOnBusinessDay(t) ==
    /\ HourOf(t) < agent.business_hours_start
    /\ weekday(t) \in agent.business_days
DefaultAgent == SLAMapperAgent_init(DefaultArgs)
EmptyDaysGiven == args.business_days = Days({})
\* the same constructor call without the business_days argument
WithoutDays == [args EXCEPT !.business_days = DefaultArgs.business_days]
\* C29: SLAMapperAgent(business_days=[]) is constructed with Monday to
\* Friday; its calls end as those of the agent constructed without the
\* argument do, with the same SLAResult, and the walker never runs away (a
\* walker that finds no business day ends in "error" at the last day of the
\* calendar).
C29_EmptyDaysAsDefault ==
    EmptyDaysGiven =>
        /\ agent.constructed => agent = SLAMapperAgent_init(WithoutDays)
        /\ ValidConfig(WithoutDays) => pc # "error"
        /\ pc = "done" =>
               /\ sla_result # NoResult
               /\ sla_result = calculate_sla(SLAMapperAgent_init(WithoutDays),
                                             priority_score, submission_time)
\* a Saturday submission: the walker skips to Monday
C29_Witness ==
    /\ EmptyDaysGiven
    /\ BusinessTierReturned
    /\ weekday(submission_time) = 5
    /\ weekday(sla_result.response_deadline) \in {0, 1, 2, 3, 4}
    /\ skip_iters > 0

\* the scores compared with the one of the call, in tenths
ComparedScores == DirectScores \cup {0, 1000}
\* C30: with the default calendar, a score at least as high never gets a
\* later response or resolution deadline for the same submission_time, and
\* both deadlines are after submission_time.
C30_HigherScoreNotLater ==
    (Returned /\ agent = DefaultAgent) =>
        /\ \A dl \in Deadlines : dl > submission_time
        /\ \A s \in ComparedScores :
               LET other == calculate_sla(agent, s, submission_time)
               IN  /\ s <= priority_score =>
                          /\ sla_result.response_deadline
                                 <= other.response_deadline
                          /\ sla_result.resolution_deadline
                                 <= other.resolution_deadline
                   /\ s >= priority_score =>
                          /\ other.response_deadline
                                 <= sla_result.response_deadline
                          /\ other.resolution_deadline
                                 <= sla_result.resolution_deadline
\* 60.0 against 59.9 on the same submission: strictly earlier deadlines
C30_Witness ==
    /\ Returned
    /\ args = DefaultArgs
    /\ priority_score = 600
    /\ sla_result.response_deadline
           < calculate_sla(agent, 599, submission_time).response_deadline
    /\ sla_result.resolution_deadline
           < calculate_sla(agent, 599, submission_time).resolution_deadline

====
